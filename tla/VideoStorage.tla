---------------------------- MODULE VideoStorage ----------------------------
(***************************************************************************)
(* Video_Storage_Service: the handlers of NodeResources and the database   *)
(* operations of DBConnection, run by concurrent requests over one OrientDB *)
(* graph and one directory of encrypted files.                             *)
(*                                                                         *)
(* An upload is a client that sends the encrypted slices of one file, each *)
(* slice after the answer to the one before; the handler of the last slice *)
(* also registers the file.  A delete and a get are one request each.      *)
(* Every DBConnection method opens and closes a connection per query, so a *)
(* query, a command and a file operation are one step each and the steps   *)
(* of different requests interleave.                                       *)
(***************************************************************************)
EXTENDS OrientGraph, FiniteSets

CONSTANTS
  Uploads,       \* clients uploading a video (each file has a name of its own)
  Deletes,       \* DELETE requests
  Gets,          \* GET requests
  Exact,         \* uploads whose size is a multiple of the slice size
  Total,         \* number of slices of a file
  Folders,       \* folder paths an upload may name (sequences of names)
  VideoNames,    \* names an upload may give its video
  DeletePaths,   \* paths a delete may name
  GetPaths,      \* paths a get may name
  Stored,        \* the folder path the database holds at the start (<<>>: empty)
  MaxActive,     \* bound: requests in progress at the same time
  MaxFaults,     \* bound: failed database commands and file operations
  MaxCrashes     \* bound: crashes of the server

ASSUME Requests ==
  /\ Uploads \cap Deletes = {} /\ Uploads \cap Gets = {} /\ Deletes \cap Gets = {}
  /\ Exact \subseteq Uploads
  /\ 0 \notin Uploads
ASSUME Inputs ==
  /\ Total \in Nat \ {0}
  /\ \A p \in Folders \cup DeletePaths \cup GetPaths : p \in Seq(STRING) /\ p # <<>>
  /\ VideoNames \cup {"", "root"} \subseteq STRING
  /\ Stored \in Seq(STRING)

VARIABLES
  disk,      \* for each upload, the slices appended to its file, in order
  onDisk,    \* uploads whose file exists
  pc,        \* for each request, the step its handler takes next
  loc,       \* for each request, the local variables of its handler
  slice,     \* for each upload, the slice its client sends next
  status,    \* for each request, the status it was last answered (0: none)
  faults,    \* failed commands so far
  crashes    \* crashes so far

reqVars == <<pc, loc, slice, status>>
fileVars == <<disk, onDisk>>
envVars == <<faults, crashes>>
vars == <<vertices, removed, edges, disk, onDisk, pc, loc, slice, status, faults, crashes>>

Req == Uploads \cup Deletes \cup Gets

RootName == "root"
NoFile == 0
Torn == Total + 1                 \* a slice of which only a part was written
Slices == [k \in 1 .. Total |-> k - 1]

Directory(name) == [class |-> "Video_Directory", name |-> name, file |-> NoFile]
Video(name, u) == [class |-> "Video", name |-> name, file |-> u]
IsDirectory(n) == vertices[n].class = "Video_Directory"
IsVideo(n) == vertices[n].class = "Video"

\* ROOT_NODE_QUERY: every directory without a father is an answer.
RootCandidates == {n \in Live : IsDirectory(n) /\ In(n) = {}}

\* GET_SON_BY_NAME: a directory or a video, whichever has the name.
SonsByName(f, name) == {n \in Out(f) : vertices[n].name = name}

\* DIRECTORY_CONTENT_QUERY selects from Video_Directory, so a video has no content.
Content(n) == IF IsDirectory(n) THEN Out(n) ELSE {}

Steps == {"new", "send", "root", "rootMake", "check", "make", "link", "video",
          "son", "attach", "leaf", "load", "remove", "unlink", "commit",
          "list", "read", "extra", "done"}

NewLocals == [phase |-> "tree", path |-> <<>>, name |-> "", todo |-> <<>>,
              at |-> NoRid, node |-> NoRid, file |-> NoFile, seen |-> {}]

(***************************************************************************)
(* Control of a handler.                                                   *)
(***************************************************************************)
Works == UNCHANGED envVars
Fails == faults < MaxFaults /\ faults' = faults + 1 /\ UNCHANGED crashes

Goto(r, step) ==
  /\ pc' = [pc EXCEPT ![r] = step]
  /\ UNCHANGED <<slice, status>>

Reply(r, code) ==
  /\ pc' = [pc EXCEPT ![r] = "done"]
  /\ status' = [status EXCEPT ![r] = code]
  /\ UNCHANGED <<slice, loc>>

\* Restlet answers 500 when a handler ends with an exception.
Throw(r) == Reply(r, 500)

\* getLastNodeFromRelativePath starts: look path up from the root.
LookUp(r) ==
  /\ loc' = [loc EXCEPT ![r].phase = "path", ![r].todo = loc[r].path, ![r].at = NoRid]
  /\ Goto(r, "root")

\* createFolderTree has returned a node.
TreeDone(r) ==
  IF r \in Uploads
  THEN Goto(r, "video") /\ UNCHANGED loc
  ELSE LookUp(r)

\* createFolderTree has returned null.  The upload ignores it; a get answers
\* the 500 it started with, a delete dereferences the node it did not look up.
TreeFailed(r) ==
  IF r \in Uploads
  THEN Goto(r, "video") /\ UNCHANGED loc
  ELSE Throw(r)

\* Enter directory or node n, with one name less to go.
Enter(r, n) ==
  loc' = [loc EXCEPT ![r].at = n, ![r].todo = Tail(loc[r].todo)]

(***************************************************************************)
(* A request arrives.  Deletes and gets first pass checkOrganization, which *)
(* creates the folder of the organization, the first name of the path.      *)
(***************************************************************************)
Active == {r \in Req : pc[r] \notin {"new", "done"}}

Start(r) ==
  /\ pc[r] = "new"
  /\ Cardinality(Active) < MaxActive
  /\ \/ /\ r \in Uploads
        /\ \E p \in Folders, v \in VideoNames :
             loc' = [loc EXCEPT ![r].path = p, ![r].name = v]
        /\ Goto(r, "send")
     \/ /\ r \in Deletes \cup Gets
        /\ \E p \in IF r \in Deletes THEN DeletePaths ELSE GetPaths :
             loc' = [loc EXCEPT ![r].path = p, ![r].todo = <<Head(p)>>]
        /\ Goto(r, "root")
  /\ UNCHANGED <<graphVars, fileVars, envVars>>

\* A metadata list without path_file is answered 500 before anything is done.
StartWithoutPath(u) ==
  /\ pc[u] = "new"
  /\ Cardinality(Active) < MaxActive
  /\ Throw(u)
  /\ UNCHANGED <<graphVars, fileVars, envVars>>

(***************************************************************************)
(* saveJsonEncryptedVideo: append the slice.  An IOException is caught; of  *)
(* a slice that failed, nothing or a part may have been written.  The last  *)
(* slice goes on to the registration whether the append succeeded or not.   *)
(***************************************************************************)
WriteSlice(u) ==
  /\ onDisk' = onDisk \cup {u}
  /\ disk' = [disk EXCEPT ![u] = Append(@, slice[u])]

WriteTorn(u) ==
  /\ onDisk' = onDisk \cup {u}
  /\ disk' = [disk EXCEPT ![u] = Append(@, Torn)]

StartTree(u) ==
  /\ loc' = [loc EXCEPT ![u].phase = "tree", ![u].todo = loc[u].path]
  /\ pc' = [pc EXCEPT ![u] = "root"]
  /\ slice' = [slice EXCEPT ![u] = Total]
  /\ UNCHANGED status

NextSlice(u) ==
  /\ slice' = [slice EXCEPT ![u] = slice[u] + 1]
  /\ status' = [status EXCEPT ![u] = 201]
  /\ UNCHANGED <<pc, loc>>

\* Mutant: the client goes on after a slice that failed.
SendUnchecked(u) ==
  /\ pc[u] = "send"
  /\ \/ WriteSlice(u) /\ Works
     \/ (WriteTorn(u) \/ UNCHANGED fileVars) /\ Fails
  /\ IF slice[u] = Total - 1 THEN StartTree(u) ELSE NextSlice(u)
  /\ UNCHANGED graphVars

Send(u) ==
  /\ pc[u] = "send"
  /\ \/ /\ WriteSlice(u) /\ Works
        /\ IF slice[u] = Total - 1 THEN StartTree(u) ELSE NextSlice(u)
     \/ /\ WriteTorn(u) \/ UNCHANGED fileVars
        /\ Fails
        /\ IF slice[u] = Total - 1 THEN StartTree(u) ELSE Throw(u)
     \/ /\ UNCHANGED fileVars           \* createDirectories throws
        /\ Fails
        /\ Throw(u)
  /\ UNCHANGED graphVars

\* readNextSlice of the upload page sends one slice more when the size of the
\* file is a multiple of the slice size; its number is not Total - 1.
SendExtra(u) ==
  /\ pc[u] = "extra"
  /\ \/ WriteSlice(u) /\ Works /\ Reply(u, 201)
     \/ (WriteTorn(u) \/ UNCHANGED fileVars) /\ Fails /\ Throw(u)
  /\ UNCHANGED graphVars

(***************************************************************************)
(* getRoot: the first answer of ROOT_NODE_QUERY.  The query has no order    *)
(* and the class spans several clusters, so any candidate may come first.   *)
(* No answer and a failed query both create a root.                         *)
(***************************************************************************)
HaveRoot(r, n) ==
  /\ loc' = [loc EXCEPT ![r].at = n]
  /\ Goto(r, IF loc[r].phase = "tree" THEN "check" ELSE "son")

GetRoot(r) ==
  /\ pc[r] = "root"
  /\ \/ /\ Works
        /\ \E n \in RootCandidates : HaveRoot(r, n)
     \/ /\ RootCandidates = {} /\ Works
        /\ Goto(r, "rootMake") /\ UNCHANGED loc
     \/ /\ Fails
        /\ Goto(r, "rootMake") /\ UNCHANGED loc
  /\ UNCHANGED <<graphVars, fileVars>>

\* Mutant: the result of createRoot is used unchecked.
CreateRootUnchecked(r) ==
  /\ pc[r] = "rootMake"
  /\ \/ Works /\ CreateVertex(Directory(RootName))
     \/ Fails /\ UNCHANGED graphVars
  /\ HaveRoot(r, NewRid)
  /\ UNCHANGED fileVars

\* createRoot, and getNodeById of what it created.  When either fails the
\* caller asks null, or an answer without "@rid", for its RID: an exception.
CreateRoot(r) ==
  /\ pc[r] = "rootMake"
  /\ \/ /\ Works
        /\ CreateVertex(Directory(RootName))
        /\ HaveRoot(r, NewRid)
     \/ /\ Fails
        /\ CreateVertex(Directory(RootName)) \/ UNCHANGED graphVars
        /\ Throw(r)
  /\ UNCHANGED fileVars

(***************************************************************************)
(* createFolderTree: per name, take the son that has it or make one.  A     *)
(* failed check counts as "no such son".                                    *)
(***************************************************************************)
\* Mutant: the folder is made without looking for it.
CheckSonSkipped(r) ==
  /\ pc[r] = "check"
  /\ Goto(r, "make")
  /\ UNCHANGED <<loc, graphVars, fileVars, envVars>>

CheckSon(r) ==
  /\ pc[r] = "check"
  /\ LET found == SonsByName(loc[r].at, Head(loc[r].todo)) IN
     \/ /\ Works
        /\ \E n \in found :
             IF Len(loc[r].todo) > 1
             THEN Enter(r, n) /\ Goto(r, "check")
             ELSE TreeDone(r)
     \/ /\ found = {} /\ Works
        /\ Goto(r, "make") /\ UNCHANGED loc
     \/ /\ Fails
        /\ Goto(r, "make") /\ UNCHANGED loc
  /\ UNCHANGED <<graphVars, fileVars>>

\* Mutant: parameter "son" is set for the first folder only.
MakeDirectoryStale(r) ==
  /\ pc[r] = "make"
  /\ Works
  /\ CreateVertex(Directory(Head(loc[r].todo)))
  /\ loc' = [loc EXCEPT ![r].node = IF @ = NoRid THEN NewRid ELSE @]
  /\ Goto(r, "link")
  /\ UNCHANGED fileVars

MakeDirectory(r) ==
  /\ pc[r] = "make"
  /\ \/ /\ Works
        /\ CreateVertex(Directory(Head(loc[r].todo)))
        /\ loc' = [loc EXCEPT ![r].node = NewRid]
        /\ Goto(r, "link")
     \/ /\ Fails
        /\ CreateVertex(Directory(Head(loc[r].todo))) \/ UNCHANGED graphVars
        /\ TreeFailed(r)
  /\ UNCHANGED fileVars

\* getClass of the new directory and CREATE EDGE.  A failed getClass gives
\* class "", with which CREATE EDGE finds no son and fails too.
LinkDirectory(r) ==
  /\ pc[r] = "link"
  /\ \/ /\ Works
        /\ CreateEdge(loc[r].at, loc[r].node)
        /\ IF Len(loc[r].todo) > 1
           THEN Enter(r, loc[r].node) /\ Goto(r, "check")
           ELSE TreeDone(r)
     \/ /\ \/ ~CanLink(loc[r].at, loc[r].node) /\ Works /\ UNCHANGED graphVars
           \/ Fails /\ (CreateEdge(loc[r].at, loc[r].node) \/ UNCHANGED graphVars)
        /\ TreeFailed(r)
  /\ UNCHANGED fileVars

(***************************************************************************)
(* createFile: the video vertex, then its folder by path, then the edge.    *)
(***************************************************************************)
CreateVideo(u) ==
  /\ pc[u] = "video"
  /\ \/ /\ Works
        /\ CreateVertex(Video(loc[u].name, u))
        /\ loc' = [loc EXCEPT ![u].node = NewRid, ![u].phase = "path",
                              ![u].todo = loc[u].path, ![u].at = NoRid]
        /\ Goto(u, "root")
     \/ /\ Fails
        /\ CreateVertex(Video(loc[u].name, u)) \/ UNCHANGED graphVars
        /\ Reply(u, 500)
  /\ UNCHANGED fileVars

\* getLastNodeFromRelativePath: one son per name; none, or a failed query,
\* ends the lookup with null.
AfterLookUp(r, n) ==
  CASE r \in Uploads -> "attach"
    [] r \in Deletes -> "leaf"
    [] r \in Gets    -> IF IsVideo(n) THEN "read" ELSE "list"

LookUpFailed(r) ==
  Reply(r, IF r \in Gets THEN 404 ELSE 500)

\* Mutant: a lookup that finds nothing starts again.
FindSonAgain(r) ==
  /\ pc[r] = "son"
  /\ LET found == SonsByName(loc[r].at, Head(loc[r].todo)) IN
     \/ \E n \in found :
          /\ Enter(r, n)
          /\ Goto(r, IF Len(loc[r].todo) > 1 THEN "son" ELSE AfterLookUp(r, n))
     \/ found = {} /\ LookUp(r)
  /\ UNCHANGED <<graphVars, fileVars, envVars>>

FindSon(r) ==
  /\ pc[r] = "son"
  /\ LET found == SonsByName(loc[r].at, Head(loc[r].todo)) IN
     \/ /\ Works
        /\ \E n \in found :
             /\ Enter(r, n)
             /\ Goto(r, IF Len(loc[r].todo) > 1 THEN "son" ELSE AfterLookUp(r, n))
     \/ /\ \/ found = {} /\ Works
           \/ Fails
        /\ LookUpFailed(r)
  /\ UNCHANGED <<graphVars, fileVars>>

\* The answer to the last slice.
AnswerUpload(u, code) ==
  IF u \in Exact /\ code = 201
  THEN /\ pc' = [pc EXCEPT ![u] = "extra"]
       /\ status' = [status EXCEPT ![u] = code]
       /\ UNCHANGED <<slice, loc>>
  ELSE Reply(u, code)

\* Mutant: father and son of the new edge are swapped.
AttachVideoSwapped(u) ==
  /\ pc[u] = "attach"
  /\ Works
  /\ IF CanLink(loc[u].at, loc[u].node)
     THEN CreateEdge(loc[u].node, loc[u].at) /\ AnswerUpload(u, 201)
     ELSE UNCHANGED graphVars /\ AnswerUpload(u, 500)
  /\ UNCHANGED fileVars

AttachVideo(u) ==
  /\ pc[u] = "attach"
  /\ \/ /\ Works
        /\ CreateEdge(loc[u].at, loc[u].node)
        /\ AnswerUpload(u, 201)
     \/ /\ \/ ~CanLink(loc[u].at, loc[u].node) /\ Works /\ UNCHANGED graphVars
           \/ Fails /\ (CreateEdge(loc[u].at, loc[u].node) \/ UNCHANGED graphVars)
        /\ AnswerUpload(u, 500)
  /\ UNCHANGED fileVars

(***************************************************************************)
(* deleteNodeById.                                                          *)
(***************************************************************************)
\* Only a leaf may be deleted; a failed content query counts as no content.
CheckLeaf(d) ==
  /\ pc[d] = "leaf"
  /\ \/ /\ Works
        /\ IF Content(loc[d].at) = {}
           THEN Goto(d, "load") /\ UNCHANGED loc
           ELSE Reply(d, 501)
     \/ /\ Fails
        /\ Goto(d, "load") /\ UNCHANGED loc
  /\ UNCHANGED <<graphVars, fileVars>>

\* getNodeById reads real_path_file; with no answer the id is "" and the
\* removal of vertex "" raises an exception.
LoadNode(d) ==
  /\ pc[d] = "load"
  /\ \/ /\ Works /\ loc[d].at \in Live
        /\ loc' = [loc EXCEPT ![d].file = vertices[loc[d].at].file]
        /\ Goto(d, "remove")
     \/ /\ \/ Works /\ loc[d].at \notin Live
           \/ Fails
        /\ Reply(d, 501)
  /\ UNCHANGED <<graphVars, fileVars>>

\* removeVertex, inside a transaction that is not committed yet.
BeginRemove(d) ==
  /\ pc[d] = "remove"
  /\ \/ /\ Works /\ loc[d].at \in Live
        /\ loc' = [loc EXCEPT ![d].seen = Around(loc[d].at)]
        /\ Goto(d, "unlink")
     \/ /\ \/ Works /\ loc[d].at \notin Live
           \/ Fails
        /\ Reply(d, 501)
  /\ UNCHANGED <<graphVars, fileVars>>

\* File.delete; when the file is still there the transaction is rolled back.
\* Mutant: whether the file is gone is not checked before the commit.
DeleteFileUnchecked(d) ==
  /\ pc[d] = "unlink"
  /\ \/ Works /\ onDisk' = onDisk \ {loc[d].file}
     \/ Fails /\ onDisk' = onDisk
  /\ Goto(d, "commit")
  /\ UNCHANGED <<loc, graphVars, disk>>

DeleteFile(d) ==
  /\ pc[d] = "unlink"
  /\ \/ /\ Works
        /\ onDisk' = onDisk \ {loc[d].file}
        /\ disk' = [u \in Uploads |-> IF u = loc[d].file THEN <<>> ELSE disk[u]]
        /\ Goto(d, "commit") /\ UNCHANGED loc
     \/ /\ Fails /\ loc[d].file \in onDisk
        /\ Reply(d, 501)
        /\ UNCHANGED fileVars
  /\ UNCHANGED graphVars

\* The commit fails when one of the records it rewrites has changed.
Unchanged(d) ==
  /\ loc[d].at \in Live
  /\ Around(loc[d].at) = loc[d].seen

\* Mutant: of a removal that fails, the edges are not restored.
CommitRemoveHalf(d) ==
  /\ pc[d] = "commit"
  /\ \/ /\ Works /\ Unchanged(d)
        /\ RemoveVertex(loc[d].at)
        /\ Reply(d, 200)
     \/ /\ (Works /\ ~Unchanged(d)) \/ Fails
        /\ edges' = {e \in edges : loc[d].at \notin {e[1], e[2]}}
        /\ UNCHANGED <<vertices, removed>>
        /\ Reply(d, 501)
  /\ UNCHANGED fileVars

CommitRemove(d) ==
  /\ pc[d] = "commit"
  /\ \/ /\ Works /\ Unchanged(d)
        /\ RemoveVertex(loc[d].at)
        /\ Reply(d, 200)
     \/ /\ \/ Works /\ ~Unchanged(d) /\ UNCHANGED graphVars
           \/ Fails /\ ((Unchanged(d) /\ RemoveVertex(loc[d].at)) \/ UNCHANGED graphVars)
        /\ Reply(d, 501)
  /\ UNCHANGED fileVars

(***************************************************************************)
(* getElement: list a directory, or read a slice of a video's file.         *)
(***************************************************************************)
ListDirectory(g) ==
  /\ pc[g] = "list"
  /\ Works \/ Fails                 \* a failed query is answered as an empty list
  /\ Reply(g, 200)
  /\ UNCHANGED <<graphVars, fileVars>>

ReadSlice(g) ==
  /\ pc[g] = "read"
  /\ \/ Works /\ Reply(g, IF vertices[loc[g].at].file \in onDisk THEN 200 ELSE 500)
     \/ Fails /\ Throw(g)
  /\ UNCHANGED <<graphVars, fileVars>>

(***************************************************************************)
(* A crash of the server ends every request in progress without an answer;  *)
(* the database and the files stay as they are.                             *)
(***************************************************************************)
Crash ==
  /\ crashes < MaxCrashes
  /\ Active # {}
  /\ crashes' = crashes + 1
  /\ pc' = [r \in Req |-> IF r \in Active THEN "done" ELSE pc[r]]
  /\ status' = [r \in Req |-> IF r \in Active THEN 0 ELSE status[r]]
  /\ UNCHANGED <<graphVars, fileVars, loc, slice, faults>>

(***************************************************************************)
(* The specification.                                                       *)
(***************************************************************************)
\* An empty database, or a root and the folders of one path left by earlier
\* requests.
StoredGraph ==
  IF Stored = <<>> THEN GraphInit
  ELSE /\ vertices = [n \in 1 .. Len(Stored) + 1 |->
                        Directory(IF n = 1 THEN RootName ELSE Stored[n - 1])]
       /\ removed = {}
       /\ edges = {<<n, n + 1>> : n \in 1 .. Len(Stored)}

Init ==
  /\ StoredGraph
  /\ disk = [u \in Uploads |-> <<>>]
  /\ onDisk = {}
  /\ pc = [r \in Req |-> "new"]
  /\ loc = [r \in Req |-> NewLocals]
  /\ slice = [u \in Uploads |-> 0]
  /\ status = [r \in Req |-> 0]
  /\ faults = 0
  /\ crashes = 0

Tree(r) ==
  \/ GetRoot(r) \/ CreateRoot(r)
  \/ CheckSon(r) \/ MakeDirectory(r) \/ LinkDirectory(r)
  \/ FindSon(r)
Upload(u) ==
  StartWithoutPath(u) \/ Send(u) \/ CreateVideo(u) \/ AttachVideo(u) \/ SendExtra(u)
Delete(d) ==
  CheckLeaf(d) \/ LoadNode(d) \/ BeginRemove(d) \/ DeleteFile(d) \/ CommitRemove(d)
Get(g) == ListDirectory(g) \/ ReadSlice(g)

\* Every client has its answer (or lost it in a crash).
Served ==
  /\ \A r \in Req : pc[r] = "done"
  /\ UNCHANGED vars

Next ==
  \/ \E r \in Req : Start(r) \/ Tree(r)
  \/ \E u \in Uploads : Upload(u)
  \/ \E d \in Deletes : Delete(d)
  \/ \E g \in Gets : Get(g)
  \/ Crash
  \/ Served

Spec == Init /\ [][Next]_vars

\* Every handler that has started goes on: its thread is scheduled, and each
\* of its steps is a bounded call.  No request has to arrive.
HandlerOf(r) ==
  \/ Tree(r)
  \/ r \in Uploads /\ Upload(r) /\ pc[r] # "new"
  \/ r \in Deletes /\ Delete(r)
  \/ r \in Gets /\ Get(r)
FairSpec == Spec /\ \A r \in Req : WF_vars(HandlerOf(r))

(***************************************************************************)
(* Properties.                                                              *)
(***************************************************************************)
Locals == [phase : {"tree", "path"}, path : Seq(STRING), name : STRING,
           todo : Seq(STRING), at : Nat, node : Nat, file : Uploads \cup {NoFile},
           seen : SUBSET (Nat \X Nat)]

Record == [class : {"Video_Directory", "Video"}, name : STRING,
           file : Uploads \cup {NoFile}]

GraphTypeOK ==
  /\ vertices \in Seq(Record)
  /\ removed \subseteq DOMAIN vertices
  /\ edges \subseteq (DOMAIN vertices) \X (DOMAIN vertices)

FileTypeOK ==
  /\ disk \in [Uploads -> Seq(0 .. Torn)]
  /\ onDisk \subseteq Uploads

RequestTypeOK ==
  /\ pc \in [Req -> Steps]
  /\ loc \in [Req -> Locals]
  /\ \A r \in Req : {loc[r].at, loc[r].node} \subseteq {NoRid} \cup DOMAIN vertices

AnswerTypeOK ==
  /\ slice \in [Uploads -> 0 .. Total]
  /\ status \in [Req -> {0, 200, 201, 404, 500, 501}]
  /\ faults \in Nat
  /\ crashes \in Nat

\* The type invariant.  A request only holds RIDs of vertices that were created.
TypeOK ==
  /\ GraphTypeOK
  /\ FileTypeOK
  /\ RequestTypeOK
  /\ AnswerTypeOK

\* The stored hierarchy: whatever the interleaving, the failures and the
\* crashes, no vertex gets two fathers and no edge leads to a deleted vertex.
Forest ==
  /\ edges \subseteq Live \X Live
  /\ \A e1, e2 \in edges : e1[2] = e2[2] => e1 = e2

\* Names in a path lead downwards: no directory or video is its own ancestor,
\* although names are looked up while other requests add and delete vertices.
\* On a cycle everyone has a father on it.
Acyclic ==
  \A S \in SUBSET Live : S # {} => \E n \in S : In(n) \cap S = {}

Unlinked(u) ==
  \E d \in Deletes : loc[d].file = u /\ pc[d] \in {"commit", "done"}

\* What is registered can be played: the file of a registered video starts
\* with its slices in order, the last one at least when nothing has failed,
\* until a delete has unlinked it.
RegisteredIsStored ==
  \A n \in Live : IsVideo(n) /\ ~Unlinked(vertices[n].file) =>
    LET u == vertices[n].file IN
    /\ \A k \in 1 .. Total - 1 : Len(disk[u]) >= k /\ disk[u][k] = Slices[k]
    /\ faults = 0 => Len(disk[u]) >= Total /\ disk[u][Total] = Slices[Total]

\* A delete answered 200 leaves nothing: its vertex is gone for good, and no
\* later append brings its file back (but see SendExtra for files of Exact).
DeletedStaysDeleted ==
  \A d \in Deletes : status[d] = 200 =>
    /\ loc[d].at \in removed
    /\ vertices[loc[d].at].file \in onDisk => vertices[loc[d].at].file \in Exact

\* A video whose upload was answered 201 stays in the folder it was attached to,
\* until a delete has removed that folder or the video: neither a removal that
\* fails, nor one of something else, nor a crash takes it from there.
Acknowledged(u) == status[u] = 201 /\ pc[u] \in {"extra", "done"} /\ slice[u] = Total

AcknowledgedIsAttached ==
  \A u \in Uploads : Acknowledged(u) =>
    \/ <<loc[u].at, loc[u].node>> \in edges
    \/ {loc[u].at, loc[u].node} \cap removed # {}

\* Served one at a time, and without failures, the requests keep one tree: one
\* root, every vertex under it, no two folders of the same name in a folder.
OneTree ==
  Active = {} =>
    /\ Cardinality(RootCandidates) <= 1
    /\ \A n \in Live : n \in RootCandidates \/ In(n) # {}
    /\ \A f \in Live : \A n, m \in Out(f) :
         IsDirectory(n) /\ IsDirectory(m) /\ vertices[n].name = vertices[m].name => n = m

\* Every request that arrived is answered: the loops over the names of a path
\* end, and no step waits for another request.
Answered == \A r \in Req : pc[r] # "new" ~> pc[r] = "done"

(***************************************************************************)
(* What the code says of itself and its steps do not keep.                 *)
(***************************************************************************)
\* DBConnection.deleteNodeById: "It isn't possible remove a node that isn't a
\* leaf node".
OnlyLeavesAreRemoved ==
  [][\A n \in removed' \ removed : Out(n) = {}]_vars
=============================================================================
