-------------------------- MODULE OrientConnections --------------------------
(***************************************************************************)
(* How the requests of a service share its connections to the database:    *)
(* the singleton DBConnection, the implementation found by                 *)
(* ImplementationLoader, and the OrientDBManager with its table from       *)
(* numbers to connection factories.                                        *)
(*                                                                         *)
(* Every query of VideoStorage and PolicyStorage is a call of this module: *)
(* it fetches the singleton, connects, uses the number it got, and         *)
(* disconnects.  Both assume that the number stands for a connection of    *)
(* its own.  The first request builds the singleton and the manager, and   *)
(* connect passes its factory through a field that all requests share, so  *)
(* this holds only for calls that no other call overlaps at those places.  *)
(*                                                                         *)
(* A call that fails rolls back before it disconnects.  Both ask the same  *)
(* factory for a transaction again, and both may fail in their turn.       *)
(***************************************************************************)
EXTENDS Naturals, FiniteSets

CONSTANTS
  Queries,       \* calls that execute one query or command
  Removals,      \* calls that remove a vertex and commit (deleteNodeById)
  VersionReads,  \* the first query of updatePolicy
  None,
  MaxActive,     \* bound: calls at the same time
  MaxFaults      \* bound: failures of the database or of a file operation

Calls == Queries \cup Removals \cup VersionReads

\* What a call builds, a singleton, a manager or a factory, is named by the call.
ASSUME Names ==
  /\ Queries \cap Removals = {} /\ VersionReads \cap (Queries \cup Removals) = {}
  /\ None \notin Calls

VARIABLES
  instance,      \* DBConnection.instance
  managerOf,     \* for each DBConnection, its manager
  path,          \* whether DBConnection.pathDB is set
  loaded,        \* the manager ImplementationLoader has
  field,         \* for each manager, its field factory
  table,         \* for each manager, the factory of each number
  open,          \* factories that are open
  pc,            \* for each call, what it does next
  conn,          \* for each call, its DBConnection
  got,           \* for each call, the manager getInstance has found
  pending,       \* removals that are not committed: the factory they were made on
  outcome,       \* for each call, how it ended
  disturbed,     \* calls that were overlapped where they share a variable
  failedAt,      \* for each call, its steps at which the database has failed
  faults

startVars == <<instance, managerOf, path, loaded>>
managerVars == <<field, table, open>>
vars == <<instance, managerOf, path, loaded, field, table, open, pc, conn, got,
          pending, outcome, disturbed, failedAt, faults>>
faultVars == <<failedAt, faults>>

Starting == {c \in Calls : pc[c] \in {"make", "receive", "find", "load", "found", "set", "path"}}
Manager(c) == IF conn[c] = None THEN None ELSE managerOf[conn[c]]
Active == {c \in Calls : pc[c] \notin {"new", "done"}}

Goto(c, step) == pc' = [pc EXCEPT ![c] = step]
Works == UNCHANGED faultVars
Fails(c) ==
  /\ faults < MaxFaults /\ faults' = faults + 1
  /\ failedAt' = [failedAt EXCEPT ![c] = @ \cup {pc[c]}]

End(c, how) ==
  /\ Goto(c, "done")
  /\ outcome' = [outcome EXCEPT ![c] = how]

Disturbs(S) == disturbed' = disturbed \cup S

(***************************************************************************)
(* DBConnection.getInstance and ImplementationLoader.getInstance.          *)
(***************************************************************************)
Fetch(c) ==
  /\ pc[c] = "new"
  /\ Cardinality(Active) < MaxActive
  /\ Disturbs(IF Starting = {} THEN {} ELSE {c} \cup Starting)
  /\ IF instance = None
     THEN Goto(c, "make") /\ UNCHANGED conn
     ELSE Goto(c, "connect") /\ conn' = [conn EXCEPT ![c] = instance]
  /\ UNCHANGED <<startVars, managerVars, got, pending, outcome, faultVars>>

\* The new singleton can be fetched before it has a manager.
Make(c) ==
  /\ pc[c] = "make"
  /\ instance' = c
  /\ managerOf' = [managerOf EXCEPT ![c] = None]
  /\ Goto(c, "receive")
  /\ UNCHANGED <<path, loaded, managerVars, conn, got, pending, outcome, disturbed, faultVars>>

\* instance.setDbManager(...): the receiver is read before the argument is computed.
Receive(c) ==
  /\ pc[c] = "receive"
  /\ conn' = [conn EXCEPT ![c] = instance]
  /\ Goto(c, "find")
  /\ UNCHANGED <<startVars, managerVars, got, pending, outcome, disturbed, faultVars>>

FindLoaded(c) ==
  /\ pc[c] = "find"
  /\ Goto(c, IF loaded = None THEN "load" ELSE "found")
  /\ UNCHANGED <<startVars, managerVars, conn, got, pending, outcome, disturbed, faultVars>>

Load(c) ==
  /\ pc[c] = "load"
  /\ loaded' = c
  /\ Goto(c, "found")
  /\ UNCHANGED <<instance, managerOf, path, managerVars, conn, got, pending, outcome,
                 disturbed, faultVars>>

FindManager(c) ==
  /\ pc[c] = "found"
  /\ got' = [got EXCEPT ![c] = loaded]
  /\ Goto(c, "set")
  /\ UNCHANGED <<startVars, managerVars, conn, pending, outcome, disturbed, faultVars>>

\* setDbManager, of the DBConnection that was the singleton before.
SetManager(c) ==
  /\ pc[c] = "set"
  /\ managerOf' = [managerOf EXCEPT ![conn[c]] = got[c]]
  /\ Goto(c, "path")
  /\ UNCHANGED <<instance, path, loaded, managerVars, conn, got, pending, outcome,
                 disturbed, faultVars>>

\* The singleton that getInstance returns is read once more.
SetPath(c) ==
  /\ pc[c] = "path"
  /\ path' = TRUE
  /\ conn' = [conn EXCEPT ![c] = instance]
  /\ Goto(c, "connect")
  /\ UNCHANGED <<instance, managerOf, loaded, managerVars, got, pending, outcome,
                 disturbed, faultVars>>

(***************************************************************************)
(* connect.                                                                *)
(***************************************************************************)
Connecting(c) ==
  {d \in Calls \ {c} : pc[d] \in {"verify", "put"} /\ Manager(d) = Manager(c)}

\* The factory goes into the field.  Without a manager there is an exception.
Assign(c) ==
  /\ pc[c] = "connect"
  /\ IF Manager(c) = None
     THEN End(c, "failed") /\ UNCHANGED <<managerVars, disturbed>>
     ELSE /\ field' = [field EXCEPT ![Manager(c)] = c]
          /\ Disturbs(IF Connecting(c) = {} THEN {} ELSE {c} \cup Connecting(c))
          /\ Goto(c, "verify")
          /\ UNCHANGED <<table, open, outcome>>
  /\ UNCHANGED <<startVars, conn, got, pending, faultVars>>

\* The first getTx of the factory in the field.  A failure makes connect return
\* null, with which every later step of the call fails.
Verify(c) ==
  /\ pc[c] = "verify"
  /\ \/ path /\ Works /\ open' = open \cup {field[Manager(c)]} /\ Goto(c, "put")
        /\ UNCHANGED outcome
     \/ ~path /\ Works /\ End(c, "failed") /\ UNCHANGED open
     \/ Fails(c) /\ End(c, "failed") /\ UNCHANGED open
  /\ UNCHANGED <<startVars, field, table, conn, got, pending, disturbed>>

\* Mutant: a number that other calls also get.
PutSameNumber(c) ==
  /\ pc[c] = "put"
  /\ table' = [table EXCEPT ![Manager(c)] = [d \in Calls |-> field[Manager(c)]]]
  /\ Goto(c, "execute")
  /\ UNCHANGED <<startVars, field, open, conn, got, pending, outcome, disturbed, faultVars>>

\* The factory in the field gets the number of this call.  The table is not
\* synchronised: of two writers at a time, one may be lost.
Put(c) ==
  LET m == Manager(c)
      writers == {d \in Calls \ {c} : pc[d] \in {"put", "disconnect"} /\ Manager(d) = m}
  IN  /\ pc[c] = "put"
      /\ \/ table' = [table EXCEPT ![m][c] = field[m]] /\ UNCHANGED disturbed
         \/ writers # {} /\ UNCHANGED table /\ Disturbs({c})
      /\ Goto(c, "execute")
      /\ UNCHANGED <<startVars, field, open, conn, got, pending, outcome, faultVars>>

(***************************************************************************)
(* executeQuery, deleteElement, commit, rollback and disconnect with that   *)
(* number.  A factory that is closed already, or whose table entry was      *)
(* lost, may make any of them throw, or only write a warning.               *)
(***************************************************************************)
Number(c) == table[Manager(c)][c]

Failed(c) == outcome' = [outcome EXCEPT ![c] = "failed"]

\* What getTx gives for a factory that was closed, a failure or a connection of
\* its own, is the library's.
Usable(c) == Number(c) # None

Execute(c) ==
  /\ pc[c] = "execute"
  /\ \/ /\ Usable(c) /\ Works
        /\ pending' = [pending EXCEPT ![c] = IF c \in Removals THEN Number(c) ELSE None]
        /\ Goto(c, IF c \in Removals THEN "commit" ELSE "disconnect")
        /\ UNCHANGED outcome
     \/ /\ (Number(c) \notin open /\ Works) \/ Fails(c)
        /\ Failed(c) /\ Goto(c, "rollback")
        /\ UNCHANGED pending
  /\ UNCHANGED <<startVars, managerVars, conn, got, disturbed>>

\* A commit on a factory that was closed since, or has gone from the table, does
\* nothing, and is taken for success.  It fails with the database, or if the file
\* of the vertex could not be deleted.
Commit(c) ==
  LET own == Number(c) \in open /\ pending[c] = Number(c)
  IN  /\ pc[c] = "commit"
      /\ \/ /\ own /\ Works
            /\ pending' = [pending EXCEPT ![c] = None]
            /\ Goto(c, "disconnect") /\ UNCHANGED outcome
         \/ /\ ~own /\ Works
            /\ outcome' = [outcome EXCEPT ![c] = "lost"]
            /\ Goto(c, "disconnect") /\ UNCHANGED pending
         \/ /\ (~own /\ Works) \/ Fails(c)
            /\ Failed(c) /\ Goto(c, "rollback") /\ UNCHANGED pending
      /\ UNCHANGED <<startVars, managerVars, conn, got, disturbed>>

\* getTx of the factory throws again, or what is done with the transaction does.
Throws(c) ==
  /\ Number(c) # None
  /\ (Number(c) \notin open /\ Works) \/ Fails(c)

Revert(c) ==
  pending' = [pending EXCEPT ![c] = IF @ = Number(c) THEN None ELSE @]

\* Mutant: the error handler returns without disconnect.
RollbackReturns(c) ==
  /\ pc[c] = "rollback"
  /\ \/ Works /\ Revert(c)
     \/ Throws(c) /\ UNCHANGED pending
  /\ Goto(c, "done")
  /\ UNCHANGED <<startVars, managerVars, conn, got, outcome, disturbed>>

\* The error handler of each query, removal and commit.  An exception of rollback
\* leaves it, and so does one of its own in updatePolicy, whose first query has left
\* no result to write the error to: then disconnect is not called.
Rollback(c) ==
  /\ pc[c] = "rollback"
  /\ \/ /\ Works /\ Revert(c)
        /\ Goto(c, IF c \in VersionReads THEN "done" ELSE "disconnect")
     \/ Throws(c) /\ UNCHANGED pending /\ Goto(c, "done")
  /\ UNCHANGED <<startVars, managerVars, conn, got, outcome, disturbed>>

Ended(c) == [outcome EXCEPT ![c] = IF @ = "none" THEN "ok" ELSE @]

\* The transactions on a factory end with it.
Close(f) ==
  /\ open' = open \ {f}
  /\ pending' = [c \in Calls |-> IF pending[c] = f THEN None ELSE pending[c]]

\* Mutant: the field is closed, not the factory of the number.
DisconnectField(c) ==
  /\ pc[c] = "disconnect"
  /\ Works
  /\ Close(field[Manager(c)])
  /\ table' = [table EXCEPT ![Manager(c)][c] = None]
  /\ outcome' = Ended(c)
  /\ Goto(c, "done")
  /\ UNCHANGED <<startVars, field, conn, got, disturbed>>

\* The factory is closed and its number forgotten; or there is only a warning; or
\* an exception, which leaves both as they are.
Disconnect(c) ==
  /\ pc[c] = "disconnect"
  /\ \/ /\ Number(c) # None /\ Works
        /\ Close(Number(c))
        /\ table' = [table EXCEPT ![Manager(c)][c] = None]
        /\ outcome' = Ended(c)
     \/ /\ Number(c) \notin open /\ Works
        /\ UNCHANGED <<open, pending, table>>
        /\ outcome' = Ended(c)
     \/ /\ Throws(c)
        /\ UNCHANGED <<open, pending, table>>
        /\ Failed(c)
  /\ Goto(c, "done")
  /\ UNCHANGED <<startVars, field, conn, got, disturbed>>

(***************************************************************************)
(* The specification.                                                      *)
(***************************************************************************)
Init ==
  /\ instance = None /\ path = FALSE /\ loaded = None
  /\ managerOf = [d \in Calls |-> None]
  /\ field = [m \in Calls |-> None]
  /\ table = [m \in Calls |-> [c \in Calls |-> None]]
  /\ open = {}
  /\ pc = [c \in Calls |-> "new"]
  /\ conn = [c \in Calls |-> None]
  /\ got = [c \in Calls |-> None]
  /\ pending = [c \in Calls |-> None]
  /\ outcome = [c \in Calls |-> "none"]
  /\ failedAt = [c \in Calls |-> {}]
  /\ disturbed = {} /\ faults = 0

GetInstance(c) ==
  \/ Fetch(c) \/ Make(c) \/ Receive(c) \/ FindLoaded(c) \/ Load(c)
  \/ FindManager(c) \/ SetManager(c) \/ SetPath(c)
Connect(c) == Assign(c) \/ Verify(c) \/ Put(c)
Use(c) == Execute(c) \/ Commit(c) \/ Rollback(c) \/ Disconnect(c)

Next == \E c \in Calls : GetInstance(c) \/ Connect(c) \/ Use(c)

Spec == Init /\ [][Next]_vars

(***************************************************************************)
(* Properties.                                                             *)
(***************************************************************************)
\* What the storage services build on: from connect to disconnect a number stands
\* for a factory of its own, which is open.  A call that no other overlapped while
\* it built the singleton or passed its factory through the field can rely on it,
\* whatever the calls do that overlapped each other.
OwnConnection ==
  \A c \in Calls \ disturbed :
    pc[c] \in {"execute", "commit", "rollback", "disconnect"} =>
      /\ Number(c) = c /\ c \in open
      /\ \A d \in Calls \ {c} : Manager(d) # None => table[Manager(d)][d] # c

\* A failure stays with the call it hits: a call that no other overlapped fails
\* only if the database failed it, whatever else fails, and it never takes a
\* removal for committed that is not.
CallFailsForAReason ==
  \A c \in Calls \ disturbed :
    /\ outcome[c] = "failed" => failedAt[c] # {}
    /\ outcome[c] # "lost"

\* A call that fails still gives its connection back, factory and number: a failed
\* query, removal or commit alone loses none, but for the first query of
\* updatePolicy.  One is kept only if the clean-up itself has failed, or if calls
\* have overlapped.
GivenBack ==
  \A c \in Calls \ disturbed : pc[c] = "done" =>
    \/ c \notin open /\ \A m, d \in Calls : table[m][d] # c
    \/ failedAt[c] \cap {"rollback", "disconnect"} # {}
    \/ c \in VersionReads /\ "execute" \in failedAt[c]
=============================================================================
