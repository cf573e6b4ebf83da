---------------------------- MODULE PolicyStorage ----------------------------
(***************************************************************************)
(* Policies_Storage_Service: the handlers of Dispatcher and the operations *)
(* of DBPolicyConnection, run by concurrent requests over one graph of     *)
(* folders and policies.                                                   *)
(*                                                                         *)
(* A policy is never deleted and never changed.  An update stores a new    *)
(* vertex with the next version number and takes the place of the old one: *)
(* the folder lists the new policy, whose only son is the old one.  Every  *)
(* query and every command has a connection of its own and is one step.    *)
(***************************************************************************)
EXTENDS OrientGraph, FiniteSets

CONSTANTS
  Creates,       \* POST requests that store a new policy
  Updates,       \* POST requests that carry the path of the policy they replace
  MakeFolders,   \* POST requests that create a folder
  Gets,          \* GET requests
  Folders,       \* folder paths a request may name (sequences of names)
  Names,         \* names of new policies and folders
  Replaced,      \* names of the policies an update replaces
  Lower,         \* the name in lower case, for each name
  Stored,        \* the folder path the database holds at the start (<<>>: empty)
  MaxActive,     \* bound: requests in progress at the same time
  MaxFaults,     \* bound: failed database commands
  MaxCrashes     \* bound: crashes of the server

Posts == Creates \cup Updates \cup MakeFolders
Req == Posts \cup Gets

NoText == 0

ASSUME Requests ==
  /\ Creates \cap Updates = {} /\ MakeFolders \cap (Creates \cup Updates) = {}
  /\ Gets \cap Posts = {}
  /\ NoText \notin Req
ASSUME Inputs ==
  /\ DOMAIN Lower \cup {"", "root"} \subseteq STRING
  /\ Names \cup Replaced \subseteq DOMAIN Lower
  /\ Stored \in Seq(DOMAIN Lower)
  /\ \A p \in Folders : p \in Seq(STRING) /\ p # <<>>

VARIABLES
  pc,        \* for each request, the step its handler takes next
  loc,       \* for each request, the local variables of its handler
  status,    \* for each request, the status it was answered (0: none)
  faults,    \* failed commands so far
  crashes    \* crashes so far

envVars == <<faults, crashes>>
vars == <<vertices, removed, edges, pc, loc, status, faults, crashes>>

RootName == "root"
FirstVersion == 1

Directory(name) == [class |-> "Directory", name |-> name, version |-> 0, text |-> NoText]
Policy(name, v, r) == [class |-> "Policy", name |-> name, version |-> v, text |-> r]
IsDirectory(n) == n \in DOMAIN vertices /\ vertices[n].class = "Directory"
IsPolicy(n) == n \in DOMAIN vertices /\ vertices[n].class = "Policy"

\* ROOT_NODE_QUERY: any directory without a father may be the first answer.
RootCandidates == {n \in Live : IsDirectory(n) /\ In(n) = {}}

\* GET_SON_BY_NAME: whatever vertex has the name.
SonsByName(f, name) == {n \in Out(f) : vertices[n].name = name}

\* isValid: no element of the folder has the name, in upper or lower case.
Taken(f, name) ==
  IsDirectory(f) /\ \E n \in Out(f) : Lower[vertices[n].name] = Lower[name]

Steps == {"new", "root", "rootMake", "son", "valid", "read", "create", "link",
          "unlink", "relink", "class", "content", "value", "done"}
Lookups == {"father", "policy", "element"}

NewLocals == [want |-> "father", path |-> <<>>, name |-> "", todo |-> <<>>,
              at |-> NoRid, father |-> NoRid, old |-> NoRid, node |-> NoRid,
              version |-> FirstVersion, cut |-> FALSE]

(***************************************************************************)
(* Control of a handler.                                                   *)
(***************************************************************************)
Works == UNCHANGED envVars
Fails == faults < MaxFaults /\ faults' = faults + 1 /\ UNCHANGED crashes

Goto(r, step) ==
  /\ pc' = [pc EXCEPT ![r] = step]
  /\ UNCHANGED status

Reply(r, code) ==
  /\ pc' = [pc EXCEPT ![r] = "done"]
  /\ status' = [status EXCEPT ![r] = code]

\* The next query or command of the handler failed, and nothing was done, or
\* something was done that the handler does not see.
Refused(r, effect) ==
  /\ Fails
  /\ effect \/ UNCHANGED graphVars
  /\ Reply(r, 500)
  /\ UNCHANGED loc

(***************************************************************************)
(* A request arrives.  The page names a folder and, for an update, a policy *)
(* of that same folder, by path; a GET names any path, "/" included (<<>>). *)
(***************************************************************************)
Active == {r \in Req : pc[r] \notin {"new", "done"}}

Asked == {<<>>} \cup Folders \cup {Append(q, x) : q \in Folders, x \in Names}

Start(r) ==
  /\ pc[r] = "new"
  /\ Cardinality(Active) < MaxActive
  /\ \/ /\ r \in Posts
        /\ \E p \in Folders, x \in Names, y \in Replaced :
             loc' = [loc EXCEPT ![r].todo = p, ![r].name = x,
                                ![r].path = IF r \in Updates THEN Append(p, y) ELSE <<>>]
     \/ /\ r \in Gets
        /\ \E p \in Asked :
             loc' = [loc EXCEPT ![r].todo = p, ![r].want = "element"]
  /\ Goto(r, "root")
  /\ UNCHANGED <<graphVars, envVars>>

\* A body that is not JSON is answered 400 before anything is done.
StartWithoutBody(r) ==
  /\ pc[r] = "new"
  /\ Cardinality(Active) < MaxActive
  /\ Reply(r, 400)
  /\ UNCHANGED <<graphVars, loc, envVars>>

(***************************************************************************)
(* getLastNodeFromRelativePath: the root, then one son per name.  The root *)
(* may be named first.                                                     *)
(***************************************************************************)
\* The lookup ends with node n.  An update looks up the old policy next.
Found(r, n) ==
  \/ /\ loc[r].want = "father" /\ r \notin Updates
     /\ loc' = [loc EXCEPT ![r].todo = <<>>, ![r].father = n]
     /\ Goto(r, "valid")
  \/ /\ loc[r].want = "father" /\ r \in Updates
     /\ loc' = [loc EXCEPT ![r].todo = loc[r].path, ![r].father = n, ![r].want = "policy"]
     /\ Goto(r, "root")
  \/ /\ loc[r].want = "policy"
     /\ loc' = [loc EXCEPT ![r].todo = <<>>, ![r].old = n]
     /\ Goto(r, "read")
  \/ /\ loc[r].want = "element"
     /\ loc' = [loc EXCEPT ![r].todo = <<>>, ![r].at = n]
     /\ Goto(r, "class")

\* It ends with null, which the lookup of the old policy does not expect.
NotFound(r) ==
  /\ Reply(r, IF loc[r].want = "policy" THEN 500 ELSE 404)
  /\ UNCHANGED loc

HaveRoot(r, n) ==
  \/ /\ loc[r].todo = <<>>                      \* GET "/"
     /\ loc' = [loc EXCEPT ![r].at = n]
     /\ Goto(r, "content")
  \/ /\ loc[r].todo = <<vertices'[n].name>>
     /\ Found(r, n)
  \/ /\ loc[r].todo # <<>> /\ loc[r].todo # <<vertices'[n].name>>
     /\ loc' = [loc EXCEPT ![r].at = n,
                           ![r].todo = IF Head(@) = vertices'[n].name THEN Tail(@) ELSE @]
     /\ Goto(r, "son")

\* No root and a failed query both create one.
GetRoot(r) ==
  /\ pc[r] = "root"
  /\ UNCHANGED graphVars
  /\ \/ /\ Works
        /\ \E n \in RootCandidates : HaveRoot(r, n)
     \/ /\ (RootCandidates = {} /\ Works) \/ Fails
        /\ Goto(r, "rootMake") /\ UNCHANGED loc

\* createRoot, and getSingleNode of what it created: any failure gives a null
\* that the caller dereferences.
CreateRoot(r) ==
  /\ pc[r] = "rootMake"
  /\ \/ Works /\ CreateVertex(Directory(RootName)) /\ HaveRoot(r, NewRid)
     \/ Refused(r, CreateVertex(Directory(RootName)))

\* Mutant: a lookup that finds nothing starts again.
FindSonAgain(r) ==
  /\ pc[r] = "son"
  /\ Works
  /\ LET found == SonsByName(loc[r].at, Head(loc[r].todo)) IN
     \/ Len(loc[r].todo) = 1 /\ \E n \in found : Found(r, n)
     \/ /\ Len(loc[r].todo) > 1 /\ Goto(r, "son")
        /\ \E n \in found : loc' = [loc EXCEPT ![r].at = n, ![r].todo = Tail(@)]
     \/ found = {} /\ Goto(r, "root") /\ UNCHANGED loc
  /\ UNCHANGED graphVars

FindSon(r) ==
  /\ pc[r] = "son"
  /\ LET found == SonsByName(loc[r].at, Head(loc[r].todo)) IN
     \/ /\ Works /\ Len(loc[r].todo) = 1
        /\ \E n \in found : Found(r, n)
     \/ /\ Works /\ Len(loc[r].todo) > 1
        /\ \E n \in found : loc' = [loc EXCEPT ![r].at = n, ![r].todo = Tail(@)]
        /\ Goto(r, "son")
     \/ /\ (found = {} /\ Works) \/ Fails
        /\ NotFound(r)
  /\ UNCHANGED graphVars

(***************************************************************************)
(* saveElement.                                                            *)
(***************************************************************************)
\* isValid, for a new policy and inside saveFolder; a failed query is taken
\* for an empty folder.
CheckName(r) ==
  /\ pc[r] = "valid"
  /\ \/ ~Taken(loc[r].father, loc[r].name) /\ Works /\ Goto(r, "create")
     \/ Fails /\ Goto(r, "create")
     \/ /\ Taken(loc[r].father, loc[r].name) /\ Works
        /\ Reply(r, IF r \in Creates THEN 409 ELSE 500)
  /\ UNCHANGED <<graphVars, loc>>

\* Mutant: version++ is missing.
ReadOldKeeps(r) ==
  /\ pc[r] = "read"
  /\ Works
  /\ loc' = [loc EXCEPT ![r].version = vertices[loc[r].old].version]
  /\ Goto(r, "create")
  /\ UNCHANGED graphVars

\* updatePolicy reads the version it replaces (0 if it is a folder's).
ReadOld(r) ==
  /\ pc[r] = "read"
  /\ \/ /\ Works
        /\ loc' = [loc EXCEPT ![r].version = vertices[loc[r].old].version + 1]
        /\ Goto(r, "create")
        /\ UNCHANGED graphVars
     \/ Refused(r, FALSE)

NewVertex(r) ==
  IF r \in MakeFolders THEN Directory(loc[r].name)
                       ELSE Policy(loc[r].name, loc[r].version, r)

\* Mutant: the status of CREATE VERTEX is not looked at.
CreateNodeUnchecked(r) ==
  /\ pc[r] = "create"
  /\ (Works /\ CreateVertex(NewVertex(r))) \/ (Fails /\ UNCHANGED graphVars)
  /\ loc' = [loc EXCEPT ![r].node = NewRid]
  /\ Goto(r, "link")

\* Mutant: the old policy leaves its folder before the new one is in it.
CreateNodeUnlinks(r) ==
  /\ pc[r] = "create"
  /\ Works
  /\ vertices' = Append(vertices, NewVertex(r))
  /\ edges' = edges \ {<<loc[r].father, loc[r].old>>}
  /\ loc' = [loc EXCEPT ![r].node = NewRid]
  /\ Goto(r, "link")
  /\ UNCHANGED removed

CreateNode(r) ==
  /\ pc[r] = "create"
  /\ \/ /\ Works
        /\ CreateVertex(NewVertex(r))
        /\ loc' = [loc EXCEPT ![r].node = NewRid]
        /\ Goto(r, "link")
     \/ Refused(r, CreateVertex(NewVertex(r)))

\* CREATE EDGE from the father, which has to be a folder.
LinkNode(r) ==
  /\ pc[r] = "link"
  /\ \/ /\ Works /\ IsDirectory(loc[r].father)
        /\ CreateEdge(loc[r].father, loc[r].node)
        /\ IF r \in Updates THEN Goto(r, "unlink") ELSE Reply(r, 201)
        /\ UNCHANGED loc
     \/ /\ Works /\ ~IsDirectory(loc[r].father)
        /\ Reply(r, 500)
        /\ UNCHANGED <<graphVars, loc>>
     \/ Refused(r, IsDirectory(loc[r].father) /\ CreateEdge(loc[r].father, loc[r].node))

\* updatePolicy: DELETE EDGE from the folder to the old policy, ...
CutOld(r) ==
  /\ IF IsPolicy(loc[r].old) THEN DeleteEdge(loc[r].father, loc[r].old)
                             ELSE UNCHANGED graphVars
  /\ loc' = [loc EXCEPT ![r].cut = TRUE]

\* Mutant: the old policy stays in its folder.
UnlinkOldForgets(r) ==
  /\ pc[r] = "unlink"
  /\ Works /\ Goto(r, "relink")
  /\ UNCHANGED <<graphVars, loc>>

UnlinkOld(r) ==
  /\ pc[r] = "unlink"
  /\ \/ Works /\ CutOld(r) /\ Goto(r, "relink")
     \/ Fails /\ (CutOld(r) \/ UNCHANGED <<graphVars, loc>>) /\ Reply(r, 500)

LinkOld(r) == IsPolicy(loc[r].old) /\ CreateEdge(loc[r].node, loc[r].old)

\* Mutant: the status of the last CREATE EDGE is not looked at.
RelinkOldUnchecked(r) ==
  /\ pc[r] = "relink"
  /\ (Works /\ LinkOld(r)) \/ (Fails /\ UNCHANGED graphVars)
  /\ Reply(r, 201)
  /\ UNCHANGED loc

\* ... then CREATE EDGE from the new policy to the old one.
RelinkOld(r) ==
  /\ pc[r] = "relink"
  /\ \/ Works /\ LinkOld(r) /\ Reply(r, 201) /\ UNCHANGED loc
     \/ /\ Works /\ ~IsPolicy(loc[r].old)
        /\ Reply(r, 500)
        /\ UNCHANGED <<graphVars, loc>>
     \/ Refused(r, LinkOld(r))

(***************************************************************************)
(* getElement.                                                             *)
(***************************************************************************)
ReadClass(g) ==
  /\ pc[g] = "class"
  /\ \/ Works /\ Goto(g, IF IsDirectory(loc[g].at) THEN "content" ELSE "value")
     \/ Fails /\ Reply(g, 500)
  /\ UNCHANGED <<graphVars, loc>>

\* A failed query is answered as an empty list.
ReadContent(g) ==
  /\ pc[g] = "content"
  /\ Works \/ Fails
  /\ Reply(g, 200)
  /\ UNCHANGED <<graphVars, loc>>

ReadValue(g) ==
  /\ pc[g] = "value"
  /\ \/ Works /\ Reply(g, 200)
     \/ Fails /\ Reply(g, 500)
  /\ UNCHANGED <<graphVars, loc>>

\* A crash of the server ends every request in progress without an answer.
Crash ==
  /\ crashes < MaxCrashes
  /\ Active # {}
  /\ crashes' = crashes + 1
  /\ pc' = [r \in Req |-> IF r \in Active THEN "done" ELSE pc[r]]
  /\ UNCHANGED <<graphVars, loc, status, faults>>

(***************************************************************************)
(* The specification.                                                      *)
(***************************************************************************)
\* An empty database, or a root and the folders of one path.
StoredGraph ==
  IF Stored = <<>> THEN GraphInit
  ELSE /\ vertices = [n \in 1 .. Len(Stored) + 1 |->
                        Directory(IF n = 1 THEN RootName ELSE Stored[n - 1])]
       /\ removed = {}
       /\ edges = {<<n, n + 1>> : n \in 1 .. Len(Stored)}

Init ==
  /\ StoredGraph
  /\ pc = [r \in Req |-> "new"]
  /\ loc = [r \in Req |-> NewLocals]
  /\ status = [r \in Req |-> 0]
  /\ faults = 0
  /\ crashes = 0

LookUp(r) == GetRoot(r) \/ CreateRoot(r) \/ FindSon(r)
Save(r) == CheckName(r) \/ ReadOld(r) \/ CreateNode(r) \/ LinkNode(r)
Replace(r) == UnlinkOld(r) \/ RelinkOld(r)
Get(g) == ReadClass(g) \/ ReadContent(g) \/ ReadValue(g)
Handle(r) == LookUp(r) \/ Save(r) \/ Replace(r) \/ Get(r)

Served ==
  /\ \A r \in Req : pc[r] = "done"
  /\ UNCHANGED vars

Next ==
  \/ \E r \in Req : Start(r) \/ Handle(r)
  \/ \E r \in Posts : StartWithoutBody(r)
  \/ Crash
  \/ Served

Spec == Init /\ [][Next]_vars

\* A handler that has started goes on: its thread is scheduled and each of its
\* steps is a bounded call.  No request has to arrive.
FairSpec == Spec /\ \A r \in Req : WF_vars(Handle(r))

(***************************************************************************)
(* Properties.                                                             *)
(***************************************************************************)
Locals == [want : Lookups, path : Seq(STRING), name : STRING, todo : Seq(STRING),
           at : Nat, father : Nat, old : Nat, node : Nat, version : Nat, cut : BOOLEAN]

Record == [class : {"Directory", "Policy"}, name : STRING, version : Nat,
           text : Posts \cup {NoText}]

GraphTypeOK ==
  /\ vertices \in Seq(Record)
  /\ removed = {}
  /\ edges \subseteq (DOMAIN vertices) \X (DOMAIN vertices)

\* The type invariant: no vertex is ever deleted, so the RIDs a request holds
\* are those of stored vertices.
TypeOK ==
  /\ GraphTypeOK
  /\ pc \in [Req -> Steps]
  /\ loc \in [Req -> Locals]
  /\ \A r \in Req : {loc[r].at, loc[r].father, loc[r].old, loc[r].node}
                      \subseteq {NoRid} \cup DOMAIN vertices
  /\ status \in [Req -> {0, 200, 201, 400, 404, 409, 500}]
  /\ faults \in Nat /\ crashes \in Nat

\* Behind a policy is the version before it: along the edges the number goes
\* down by one and ends at the first version, although updatePolicy reads the
\* number, adds one and stores it in three connections, while other updates of
\* the same policy do the same.
VersionsDescend ==
  \A n \in Live : IsPolicy(n) =>
    /\ vertices[n].version >= FirstVersion
    /\ \A m \in Out(n) : IsPolicy(m) /\ vertices[m].version + 1 = vertices[n].version

\* An update that gives the policy named x another name.
Renames(r, x) ==
  r \in Updates /\ pc[r] # "new" /\ loc[r].path # <<>>
  /\ loc[r].path[Len(loc[r].path)] = x /\ loc[r].name # x

Listed(f, x) == \E n \in Out(f) : IsPolicy(n) /\ vertices[n].name = x

\* The new policy is in its folder before the old one leaves it, so a name that
\* a folder lists stays listed through updates, failures and crashes, unless an
\* update renames the policy.
NamesStayListed ==
  [][\A f \in Live, x \in {vertices[n].name : n \in Live} :
       IsDirectory(f) /\ Listed(f, x) => Listed(f, x)' \/ \E r \in Req : Renames(r, x)]_vars

\* What can be reached from the vertices S: the smallest set that holds them and
\* the sons of what it holds.
Below(S) ==
  {n \in Live : \A T \in SUBSET Live :
     S \subseteq T /\ (\A e \in edges : e[1] \in T => e[2] \in T) => n \in T}

\* Every policy that can be reached from a folder.
Reach == Below({n \in Live : IsDirectory(n)})

\* The versions that hang from version n.
Older(n) == Below({n})

\* A policy whose creation or update was answered 201 can be found from its
\* folder, in it or behind a newer version, except where an update that was not
\* answered 201 has taken it, or a newer version, out of the folder.
AcknowledgedIsKept ==
  \A n \in Live :
    IsPolicy(n) /\ status[vertices[n].text] = 201 =>
      \/ n \in Reach
      \/ \E r \in Updates : loc[r].cut /\ status[r] # 201 /\ n \in Older(loc[r].old)

\* Every request that arrived is answered.
Answered == \A r \in Req : pc[r] # "new" ~> pc[r] = "done"

(***************************************************************************)
(* Served one at a time, and without failures, the service keeps the       *)
(* PolicyBook.  While an update moves the edges of the old policy, the     *)
(* book still shows the old one.                                           *)
(***************************************************************************)
Replacing == {r \in Updates : pc[r] \in {"unlink", "relink"} /\ IsPolicy(loc[r].old)}

InFolder == {n \in Live : IsPolicy(n) /\ \E f \in In(n) : IsDirectory(f)}

Current == (InFolder \ {loc[r].node : r \in Replacing}) \cup {loc[r].old : r \in Replacing}

\* The path of a vertex from its root.
PathOf[n \in DOMAIN vertices] ==
  IF In(n) = {} THEN <<>>
  ELSE Append(PathOf[CHOOSE f \in In(n) : TRUE], vertices[n].name)

\* The requests that wrote a policy and the ones behind it, oldest first.
History[n \in DOMAIN vertices] ==
  IF Out(n) = {} THEN <<vertices[n].text>>
  ELSE Append(History[CHOOSE m \in Out(n) : TRUE], vertices[n].text)

FolderOf(n) ==
  LET mover == {r \in Replacing : loc[r].old = n} IN
  IF mover # {} THEN loc[CHOOSE r \in mover : TRUE].father
  ELSE CHOOSE f \in In(n) : TRUE

Book == INSTANCE PolicyBook WITH
  folders <- {<<>>} \cup {PathOf[n] : n \in {m \in Live : IsDirectory(m)}},
  book <- {[folder |-> PathOf[FolderOf(n)], name |-> vertices[n].name,
            history |-> History[n]] : n \in Current},
  saved <- {r \in Posts : status[r] = 201},
  conflicts <- {r \in Posts : status[r] = 409}

\* Every step of the service is a step of the book or leaves it as it is.
KeepsBook == Book!BookSpec
=============================================================================
