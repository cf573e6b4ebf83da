----------------------------- MODULE OrientGraph -----------------------------
(***************************************************************************)
(* The OrientDB graph as the storage services use it: vertices of one of   *)
(* the classes of the service, and "parent_of" edges from a father to a    *)
(* son.  The database is external to the repository; this module states    *)
(* what the SQL commands and the transactions issued through               *)
(* OrientDBManager do.  A SQL command is executed by the server at once    *)
(* and on its own: it either happens completely or not at all.  A command  *)
(* whose caller sees an exception may still have been executed.            *)
(***************************************************************************)
EXTENDS Naturals, Sequences

VARIABLES
  vertices,   \* every vertex ever created; the RID of a vertex is its index
  removed,    \* RIDs of the vertices deleted since (RIDs are never reused)
  edges       \* set of pairs <<father, son>>

graphVars == <<vertices, removed, edges>>

NoRid == 0

GraphInit ==
  /\ vertices = <<>>
  /\ removed = {}
  /\ edges = {}

Live == DOMAIN vertices \ removed

Out(f) == {n \in Live : <<f, n>> \in edges}
In(n) == {f \in Live : <<f, n>> \in edges}

\* The RID the next CREATE VERTEX gives.
NewRid == Len(vertices) + 1

\* CREATE VERTEX <class> ...
CreateVertex(v) ==
  /\ vertices' = Append(vertices, v)
  /\ UNCHANGED <<removed, edges>>

\* CREATE EDGE parent_of FROM (select the father) TO (select the son).  When
\* either select is empty the command raises an exception.
CanLink(f, s) == f \in Live /\ s \in Live

CreateEdge(f, s) ==
  /\ CanLink(f, s)
  /\ edges' = edges \cup {<<f, s>>}
  /\ UNCHANGED <<vertices, removed>>

\* DELETE EDGE parent_of FROM (select the father) TO (select the son) answers a
\* number of edges, none included.
DeleteEdge(f, s) ==
  /\ edges' = edges \ {<<f, s>>}
  /\ UNCHANGED <<vertices, removed>>

\* The records a removal of n rewrites are n and its neighbours: the edges at
\* these records are what the optimistic version check of a commit compares.
Near(n) == {n} \cup Out(n) \cup In(n)
Around(n) == {e \in edges : e[1] \in Near(n) \/ e[2] \in Near(n)}

\* Commit of a transaction that removed vertex n (with the edges at n).
RemoveVertex(n) ==
  /\ removed' = removed \cup {n}
  /\ edges' = {e \in edges : n \notin {e[1], e[2]}}
  /\ UNCHANGED vertices
=============================================================================
