----------------------- MODULE OrientConnectionsProofs -----------------------
(***************************************************************************)
(* Proofs about OrientConnections, for any number of calls at a time, and  *)
(* of failures.                                                            *)
(*                                                                         *)
(* What a call that nobody has overlapped can rely on rests on two facts.  *)
(* While it builds the singleton it is alone there, and once it has one    *)
(* nothing about it changes any more.  And from the assignment of its      *)
(* factory to the field until the table has it, no other call is between   *)
(* these two steps: so the factory gets its number and no other.           *)
(***************************************************************************)
EXTENDS OrientConnections, TLAPS

StartSteps == {"make", "receive", "find", "load", "found", "set", "path"}
After == {"execute", "commit", "rollback", "disconnect"}
Connected == {"verify", "put"} \cup After
Steps == {"new", "connect", "done"} \cup StartSteps \cup Connected

Named == Calls \cup {None}

TypeInv ==
  /\ instance \in Named /\ loaded \in Named /\ path \in BOOLEAN
  /\ managerOf \in [Calls -> Named]
  /\ field \in [Calls -> Named]
  /\ table \in [Calls -> [Calls -> Named]]
  /\ pc \in [Calls -> Steps]
  /\ conn \in [Calls -> Named]
  /\ got \in [Calls -> Named]
  /\ pending \in [Calls -> Named]
  /\ outcome \in [Calls -> {"none", "ok", "failed", "lost"}]
  /\ disturbed \subseteq Calls
  /\ failedAt \in [Calls -> SUBSET Steps]
  /\ faults \in Nat

\* Nobody has the DBConnection of a call that has not made one, and a call that
\* has taken the first steps finds what they leave.
Built ==
  \A c \in Calls :
    /\ pc[c] \in {"new", "make"} => instance # c /\ \A d \in Calls : conn[d] # c
    /\ pc[c] \in StartSteps \ {"make"} => instance # None
    /\ pc[c] = "found" => loaded # None
    /\ pc[c] = "set" => got[c] # None
    /\ pc[c] \in {"connect"} \cup Connected => conn[c] # None
    /\ pc[c] \in Connected => Manager(c) # None

\* When no call is building it, the singleton is complete: the call that has made it
\* gives it a manager.
Complete ==
  instance # None =>
    /\ path \/ Starting # {}
    /\ \/ managerOf[instance] # None
       \/ pc[instance] = "receive"
       \/ pc[instance] \in {"find", "load", "found", "set"} /\ conn[instance] = instance

\* A call that was not overlapped builds the singleton alone, and has the final one.
AloneOrFinal ==
  \A c \in Calls \ disturbed :
    /\ pc[c] \in StartSteps => Starting = {c}
    /\ pc[c] = "make" => instance = None
    /\ pc[c] \notin StartSteps \cup {"new"} =>
         Starting = {} /\ instance # None /\ conn[c] = instance

\* Its factory is in the field of its manager only, and while it is there no
\* other call is between the assignment and the table.
FieldInv ==
  \A c \in Calls \ disturbed :
    /\ pc[c] \in {"verify", "put"} => field[Manager(c)] = c
    /\ \A m \in Calls :
         field[m] = c =>
           /\ pc[c] \notin StartSteps \cup {"new", "connect"}
           /\ m = Manager(c)
           /\ Connecting(c) = {}

\* The clean-up has failed, or there was none.
Kept(c) ==
  \/ failedAt[c] \cap {"rollback", "disconnect"} # {}
  \/ c \in VersionReads /\ "execute" \in failedAt[c]

\* Its factory has its number and no other.
TableInv ==
  \A c \in Calls \ disturbed :
    /\ \A m, d \in Calls :
         table[m][d] = c =>
           /\ d = c /\ m = Manager(c)
           /\ pc[c] \in After \/ (pc[c] = "done" /\ Kept(c))
    /\ pc[c] \in After => Number(c) = c

\* It is open from the first getTx to disconnect, and longer only where that was
\* not reached.
OpenInv ==
  \A c \in Calls \ disturbed :
    /\ pc[c] \in {"put"} \cup After => c \in open
    /\ c \in open => pc[c] \in {"put"} \cup After \/ (pc[c] = "done" /\ Kept(c))

\* A removal stays uncommitted on it until the commit, and a call that rolls back
\* knows what has failed.
PendingInv ==
  \A c \in Calls \ disturbed :
    /\ pc[c] = "commit" => c \in Removals /\ pending[c] = c
    /\ pc[c] = "rollback" => c \in Removals \/ "execute" \in failedAt[c]

ConnInv ==
  /\ TypeInv /\ Built /\ Complete /\ AloneOrFinal
  /\ FieldInv /\ TableInv /\ OpenInv /\ PendingInv /\ CallFailsForAReason

(***************************************************************************)
(* Types.                                                                  *)
(***************************************************************************)
LEMMA ManagerType ==
  ASSUME TypeInv, Built, NEW c \in Calls, pc[c] \in {"connect"} \cup Connected
  PROVE  /\ conn[c] \in Calls
         /\ Manager(c) = managerOf[conn[c]]
         /\ Manager(c) \in Named
         /\ pc[c] # "connect" =>
              /\ Manager(c) \in Calls
              /\ field[Manager(c)] \in Named
              /\ Number(c) = table[Manager(c)][c]
              /\ Number(c) \in Named
BY Names DEF TypeInv, Built, Manager, Number, Named, Connected

LEMMA FaultTypes ==
  ASSUME TypeInv, NEW c \in Calls, Works \/ Fails(c)
  PROVE  faults' \in Nat /\ failedAt' \in [Calls -> SUBSET Steps]
BY DEF TypeInv, Works, Fails, faultVars

LEMMA TypeStep ==
  TypeInv /\ Built /\ [Next]_vars => TypeInv'
<1> SUFFICES ASSUME TypeInv, Built, [Next]_vars PROVE TypeInv'
  OBVIOUS
<1> USE DEF Named, Steps, StartSteps, Connected, After
<1>1. ASSUME NEW c \in Calls, Fetch(c) PROVE TypeInv'
  <2>1. instance \in Named /\ managerOf \in [Calls -> Named] /\ conn \in [Calls -> Named]
    BY DEF TypeInv
  <2>2. /\ path' \in BOOLEAN /\ loaded' \in Named /\ instance' \in Named
        /\ managerOf' \in [Calls -> Named]
    BY <1>1 DEF TypeInv, Fetch, startVars
  <2>3. field' \in [Calls -> Named] /\ table' \in [Calls -> [Calls -> Named]]
    BY <1>1 DEF TypeInv, Fetch, managerVars
  <2>4. pc' \in [Calls -> Steps]
    BY <1>1 DEF TypeInv, Fetch, Goto, End
  <2>5. conn' \in [Calls -> Named] /\ got' \in [Calls -> Named]
    BY <1>1 DEF TypeInv, Fetch
  <2>6. pending' \in [Calls -> Named]
    BY <1>1 DEF TypeInv, Fetch, Close
  <2>7. outcome' \in [Calls -> {"none", "ok", "failed", "lost"}]
    BY <1>1 DEF TypeInv, Fetch, End, Ended
  <2>8. disturbed' \subseteq Calls
    BY <1>1 DEF TypeInv, Fetch, Disturbs, Starting, Connecting
  <2>9. faults' \in Nat /\ failedAt' \in [Calls -> SUBSET Steps]
    <3>1. Works \/ Fails(c)
      BY <1>1 DEF Fetch, Works
    <3> QED BY <3>1, FaultTypes
  <2> QED BY <2>2, <2>3, <2>4, <2>5, <2>6, <2>7, <2>8, <2>9 DEF TypeInv
<1>2. ASSUME NEW c \in Calls, Make(c) PROVE TypeInv'
  BY <1>2 DEF TypeInv, Make, Goto, startVars, managerVars, faultVars
<1>3. ASSUME NEW c \in Calls, FindLoaded(c) PROVE TypeInv'
  BY <1>3 DEF TypeInv, FindLoaded, Goto, startVars, managerVars, faultVars
<1>4. ASSUME NEW c \in Calls, Load(c) PROVE TypeInv'
  BY <1>4 DEF TypeInv, Load, Goto, startVars, managerVars, faultVars
<1>5. ASSUME NEW c \in Calls, FindManager(c) PROVE TypeInv'
  BY <1>5 DEF TypeInv, FindManager, Goto, startVars, managerVars, faultVars
<1>6. ASSUME NEW c \in Calls, SetManager(c) PROVE TypeInv'
  BY <1>6 DEF TypeInv, SetManager, Goto, managerVars, faultVars
<1>7. ASSUME NEW c \in Calls, SetPath(c) PROVE TypeInv'
  BY <1>7 DEF TypeInv, SetPath, Goto, startVars, managerVars, faultVars
<1>8. ASSUME NEW c \in Calls, Assign(c) PROVE TypeInv'
  <2>1. instance \in Named /\ managerOf \in [Calls -> Named] /\ conn \in [Calls -> Named]
    BY DEF TypeInv
  <2>2. /\ path' \in BOOLEAN /\ loaded' \in Named /\ instance' \in Named
        /\ managerOf' \in [Calls -> Named]
    BY <1>8 DEF TypeInv, Assign, startVars
  <2>3. field' \in [Calls -> Named] /\ table' \in [Calls -> [Calls -> Named]]
    <3>1. \/ UNCHANGED <<field, table>>
          \/ /\ Manager(c) \in Calls /\ UNCHANGED table
             /\ field' = [field EXCEPT ![Manager(c)] = c]
      BY <1>8, ManagerType DEF Assign, managerVars
    <3>2. field \in [Calls -> Named] /\ table \in [Calls -> [Calls -> Named]]
      BY DEF TypeInv
    <3> QED BY <3>1, <3>2
  <2>4. pc' \in [Calls -> Steps]
    <3>1. \E s \in Steps : pc' = [pc EXCEPT ![c] = s]
      BY <1>8 DEF Assign, Goto, End
    <3>2. pc \in [Calls -> Steps]
      BY DEF TypeInv
    <3> QED BY <3>1, <3>2
  <2>5. conn' \in [Calls -> Named] /\ got' \in [Calls -> Named]
    BY <1>8 DEF TypeInv, Assign
  <2>6. pending' \in [Calls -> Named]
    BY <1>8, ManagerType DEF TypeInv, Assign, Close
  <2>7. outcome' \in [Calls -> {"none", "ok", "failed", "lost"}]
    BY <1>8 DEF TypeInv, Assign, End, Ended
  <2>8. disturbed' \subseteq Calls
    BY <1>8 DEF TypeInv, Assign, Disturbs, Starting, Connecting
  <2>9. faults' \in Nat /\ failedAt' \in [Calls -> SUBSET Steps]
    <3>1. Works \/ Fails(c)
      BY <1>8 DEF Assign, Works
    <3> QED BY <3>1, FaultTypes
  <2> QED BY <2>2, <2>3, <2>4, <2>5, <2>6, <2>7, <2>8, <2>9 DEF TypeInv
<1>9. ASSUME NEW c \in Calls, Verify(c) PROVE TypeInv'
  <2>1. instance \in Named /\ managerOf \in [Calls -> Named] /\ conn \in [Calls -> Named]
    BY DEF TypeInv
  <2>2. /\ path' \in BOOLEAN /\ loaded' \in Named /\ instance' \in Named
        /\ managerOf' \in [Calls -> Named]
    BY <1>9 DEF TypeInv, Verify, startVars
  <2>3. field' \in [Calls -> Named] /\ table' \in [Calls -> [Calls -> Named]]
    BY <1>9, ManagerType DEF TypeInv, Verify, managerVars
  <2>4. pc' \in [Calls -> Steps]
    BY <1>9 DEF TypeInv, Verify, Goto, End
  <2>5. conn' \in [Calls -> Named] /\ got' \in [Calls -> Named]
    BY <1>9 DEF TypeInv, Verify
  <2>6. pending' \in [Calls -> Named]
    BY <1>9, ManagerType DEF TypeInv, Verify, Close
  <2>7. outcome' \in [Calls -> {"none", "ok", "failed", "lost"}]
    BY <1>9 DEF TypeInv, Verify, End, Ended
  <2>8. disturbed' \subseteq Calls
    BY <1>9 DEF TypeInv, Verify, Disturbs, Starting, Connecting
  <2>9. faults' \in Nat /\ failedAt' \in [Calls -> SUBSET Steps]
    <3>1. Works \/ Fails(c)
      BY <1>9 DEF Verify, Works
    <3> QED BY <3>1, FaultTypes
  <2> QED BY <2>2, <2>3, <2>4, <2>5, <2>6, <2>7, <2>8, <2>9 DEF TypeInv
<1>10. ASSUME NEW c \in Calls, Put(c) PROVE TypeInv'
  <2>1. instance \in Named /\ managerOf \in [Calls -> Named] /\ conn \in [Calls -> Named]
    BY DEF TypeInv
  <2>2. /\ path' \in BOOLEAN /\ loaded' \in Named /\ instance' \in Named
        /\ managerOf' \in [Calls -> Named]
    BY <1>10 DEF TypeInv, Put, startVars
  <2>3. field' \in [Calls -> Named] /\ table' \in [Calls -> [Calls -> Named]]
    <3>1. /\ Manager(c) \in Calls /\ field[Manager(c)] \in Named
          /\ field \in [Calls -> Named] /\ table \in [Calls -> [Calls -> Named]]
      BY <1>10, ManagerType DEF TypeInv, Put
    <3>2. /\ field' = field
          /\ \/ table' = table
             \/ table' = [table EXCEPT ![Manager(c)][c] = field[Manager(c)]]
      BY <1>10 DEF Put
    <3> QED BY <3>1, <3>2
  <2>4. pc' \in [Calls -> Steps]
    BY <1>10 DEF TypeInv, Put, Goto, End
  <2>5. conn' \in [Calls -> Named] /\ got' \in [Calls -> Named]
    BY <1>10 DEF TypeInv, Put
  <2>6. pending' \in [Calls -> Named]
    BY <1>10, ManagerType DEF TypeInv, Put, Close
  <2>7. outcome' \in [Calls -> {"none", "ok", "failed", "lost"}]
    BY <1>10 DEF TypeInv, Put, End, Ended
  <2>8. disturbed' \subseteq Calls
    BY <1>10 DEF TypeInv, Put, Disturbs, Starting, Connecting
  <2>9. faults' \in Nat /\ failedAt' \in [Calls -> SUBSET Steps]
    <3>1. Works \/ Fails(c)
      BY <1>10 DEF Put, Works
    <3> QED BY <3>1, FaultTypes
  <2> QED BY <2>2, <2>3, <2>4, <2>5, <2>6, <2>7, <2>8, <2>9 DEF TypeInv
<1>11. ASSUME NEW c \in Calls, Execute(c) PROVE TypeInv'
  <2>1. instance \in Named /\ managerOf \in [Calls -> Named] /\ conn \in [Calls -> Named]
    BY DEF TypeInv
  <2>2. /\ path' \in BOOLEAN /\ loaded' \in Named /\ instance' \in Named
        /\ managerOf' \in [Calls -> Named]
    BY <1>11 DEF TypeInv, Execute, startVars
  <2>3. field' \in [Calls -> Named] /\ table' \in [Calls -> [Calls -> Named]]
    BY <1>11, ManagerType DEF TypeInv, Execute, managerVars
  <2>4. pc' \in [Calls -> Steps]
    BY <1>11 DEF TypeInv, Execute, Goto, End
  <2>5. conn' \in [Calls -> Named] /\ got' \in [Calls -> Named]
    BY <1>11 DEF TypeInv, Execute
  <2>6. pending' \in [Calls -> Named]
    <3>1. Number(c) \in Named /\ pending \in [Calls -> Named]
      BY <1>11, ManagerType DEF TypeInv, Execute
    <3>2. \/ pending' = pending
          \/ pending' = [pending EXCEPT ![c] = IF c \in Removals THEN Number(c) ELSE None]
      BY <1>11 DEF Execute
    <3> QED BY <3>1, <3>2
  <2>7. outcome' \in [Calls -> {"none", "ok", "failed", "lost"}]
    BY <1>11 DEF TypeInv, Execute, Failed, Ended
  <2>8. disturbed' \subseteq Calls
    BY <1>11 DEF TypeInv, Execute, Disturbs, Starting, Connecting
  <2>9. faults' \in Nat /\ failedAt' \in [Calls -> SUBSET Steps]
    <3>1. Works \/ Fails(c)
      BY <1>11 DEF Execute, Works
    <3> QED BY <3>1, FaultTypes
  <2> QED BY <2>2, <2>3, <2>4, <2>5, <2>6, <2>7, <2>8, <2>9 DEF TypeInv
<1>12. ASSUME NEW c \in Calls, Commit(c) PROVE TypeInv'
  <2>1. instance \in Named /\ managerOf \in [Calls -> Named] /\ conn \in [Calls -> Named]
    BY DEF TypeInv
  <2>2. /\ path' \in BOOLEAN /\ loaded' \in Named /\ instance' \in Named
        /\ managerOf' \in [Calls -> Named]
    BY <1>12 DEF TypeInv, Commit, startVars
  <2>3. field' \in [Calls -> Named] /\ table' \in [Calls -> [Calls -> Named]]
    BY <1>12, ManagerType DEF TypeInv, Commit, managerVars
  <2>4. pc' \in [Calls -> Steps]
    BY <1>12 DEF TypeInv, Commit, Goto, End
  <2>5. conn' \in [Calls -> Named] /\ got' \in [Calls -> Named]
    BY <1>12 DEF TypeInv, Commit
  <2>6. pending' \in [Calls -> Named]
    BY <1>12, ManagerType DEF TypeInv, Commit, Close
  <2>7. outcome' \in [Calls -> {"none", "ok", "failed", "lost"}]
    BY <1>12 DEF TypeInv, Commit, Failed, Ended
  <2>8. disturbed' \subseteq Calls
    BY <1>12 DEF TypeInv, Commit, Disturbs, Starting, Connecting
  <2>9. faults' \in Nat /\ failedAt' \in [Calls -> SUBSET Steps]
    <3>1. Works \/ Fails(c)
      BY <1>12 DEF Commit, Works
    <3> QED BY <3>1, FaultTypes
  <2> QED BY <2>2, <2>3, <2>4, <2>5, <2>6, <2>7, <2>8, <2>9 DEF TypeInv
<1>13. ASSUME NEW c \in Calls, Disconnect(c) PROVE TypeInv'
  <2>1. instance \in Named /\ managerOf \in [Calls -> Named] /\ conn \in [Calls -> Named]
    BY DEF TypeInv
  <2>2. /\ path' \in BOOLEAN /\ loaded' \in Named /\ instance' \in Named
        /\ managerOf' \in [Calls -> Named]
    BY <1>13 DEF TypeInv, Disconnect, startVars
  <2>3. field' \in [Calls -> Named] /\ table' \in [Calls -> [Calls -> Named]]
    <3>1. /\ UNCHANGED field /\ Manager(c) \in Calls
          /\ \/ UNCHANGED table
             \/ table' = [table EXCEPT ![Manager(c)][c] = None]
      BY <1>13, ManagerType DEF Disconnect
    <3>2. field \in [Calls -> Named] /\ table \in [Calls -> [Calls -> Named]]
      BY DEF TypeInv
    <3> QED BY <3>1, <3>2
  <2>4. pc' \in [Calls -> Steps]
    BY <1>13 DEF TypeInv, Disconnect, Goto, End
  <2>5. conn' \in [Calls -> Named] /\ got' \in [Calls -> Named]
    BY <1>13 DEF TypeInv, Disconnect
  <2>6. pending' \in [Calls -> Named]
    BY <1>13 DEF TypeInv, Disconnect, Close
  <2>7. outcome' \in [Calls -> {"none", "ok", "failed", "lost"}]
    BY <1>13 DEF TypeInv, Disconnect, Failed, Ended
  <2>8. disturbed' \subseteq Calls
    BY <1>13 DEF TypeInv, Disconnect, Disturbs, Starting, Connecting
  <2>9. faults' \in Nat /\ failedAt' \in [Calls -> SUBSET Steps]
    <3>1. Works \/ Fails(c)
      BY <1>13 DEF Disconnect, Works, Throws
    <3> QED BY <3>1, FaultTypes
  <2> QED BY <2>2, <2>3, <2>4, <2>5, <2>6, <2>7, <2>8, <2>9 DEF TypeInv
<1>14. ASSUME NEW c \in Calls, Receive(c) PROVE TypeInv'
  BY <1>14 DEF TypeInv, Receive, Goto, startVars, managerVars, faultVars
<1>15. ASSUME NEW c \in Calls, Rollback(c) PROVE TypeInv'
  <2>1. faults' \in Nat /\ failedAt' \in [Calls -> SUBSET Steps]
    <3>1. Works \/ Fails(c)
      BY <1>15 DEF Rollback, Throws
    <3> QED BY <3>1, FaultTypes
  <2>2. pending' \in [Calls -> Named] /\ pc' \in [Calls -> Steps]
    BY <1>15 DEF TypeInv, Rollback, Revert, Goto
  <2> QED BY <1>15, <2>1, <2>2 DEF TypeInv, Rollback, startVars, managerVars
<1>16. CASE UNCHANGED vars
  BY <1>16 DEF TypeInv, vars
<1> QED
  BY <1>1, <1>2, <1>3, <1>4, <1>5, <1>6, <1>7, <1>8, <1>9, <1>10, <1>11, <1>12, <1>13, <1>14, <1>15, <1>16 DEF Next, GetInstance, Connect, Use

(***************************************************************************)
(* Building the singleton.                                                 *)
(***************************************************************************)
\* Only these steps change what a call finds of the singleton; the others change
\* the step of one call that is connected, or about to connect.
Later(c) ==
  /\ UNCHANGED <<startVars, conn, got>>
  /\ pc[c] \in {"connect"} \cup Connected
  /\ \E s \in Connected \cup {"done"} :
       /\ pc' = [pc EXCEPT ![c] = s]
       /\ pc[c] = "connect" => s = "done" \/ Manager(c) # None

LEMMA LaterSteps ==
  ASSUME NEW c \in Calls, Connect(c) \/ Use(c)
  PROVE  Later(c)
<1> USE DEF Later, Goto, End, startVars, Connected, After
<1>1. CASE Assign(c)
  BY <1>1 DEF Assign
<1>2. CASE Verify(c)
  BY <1>2 DEF Verify
<1>3. CASE Put(c)
  BY <1>3 DEF Put
<1>4. CASE Execute(c)
  BY <1>4 DEF Execute
<1>5. CASE Commit(c)
  BY <1>5 DEF Commit
<1>6. CASE Rollback(c)
  BY <1>6 DEF Rollback
<1>7. CASE Disconnect(c)
  BY <1>7 DEF Disconnect
<1> QED BY <1>1, <1>2, <1>3, <1>4, <1>5, <1>6, <1>7 DEF Connect, Use

LEMMA BuiltStep ==
  TypeInv /\ Built /\ [Next]_vars => Built'
<1> SUFFICES ASSUME TypeInv, Built, [Next]_vars PROVE Built'
  OBVIOUS
<1> USE Names DEF Named, StartSteps, Connected, After
<1>1. ASSUME NEW c \in Calls, Fetch(c) PROVE Built'
  BY <1>1 DEF TypeInv, Built, Fetch, Goto, Manager, startVars
<1>2. ASSUME NEW c \in Calls, Make(c) PROVE Built'
  BY <1>2 DEF TypeInv, Built, Make, Goto, Manager, startVars
<1>3. ASSUME NEW c \in Calls, FindLoaded(c) PROVE Built'
  BY <1>3 DEF TypeInv, Built, FindLoaded, Goto, Manager, startVars
<1>4. ASSUME NEW c \in Calls, Load(c) PROVE Built'
  BY <1>4 DEF TypeInv, Built, Load, Goto, Manager, startVars
<1>5. ASSUME NEW c \in Calls, FindManager(c) PROVE Built'
  BY <1>5 DEF TypeInv, Built, FindManager, Goto, Manager, startVars
<1>6. ASSUME NEW c \in Calls, SetManager(c) PROVE Built'
  BY <1>6 DEF TypeInv, Built, SetManager, Goto, Manager
<1>7. ASSUME NEW c \in Calls, SetPath(c) PROVE Built'
  BY <1>7 DEF TypeInv, Built, SetPath, Goto, Manager, startVars
<1>8. ASSUME NEW c \in Calls, Connect(c) \/ Use(c) PROVE Built'
  <2>1. Later(c)
    BY <1>8, LaterSteps
  <2> QED BY <2>1 DEF TypeInv, Built, Later, startVars, Manager
<1>9. ASSUME NEW c \in Calls, Receive(c) PROVE Built'
  BY <1>9 DEF TypeInv, Built, Receive, Goto, Manager, startVars
<1>10. CASE UNCHANGED vars
  BY <1>10 DEF Built, vars, Manager
<1> QED
  BY <1>1, <1>2, <1>3, <1>4, <1>5, <1>6, <1>7, <1>8, <1>9, <1>10 DEF Next, GetInstance

LEMMA CompleteStep ==
  TypeInv /\ Built /\ Complete /\ [Next]_vars => Complete'
<1> SUFFICES ASSUME TypeInv, Built, Complete, [Next]_vars PROVE Complete'
  OBVIOUS
<1> USE Names DEF Named, StartSteps, Connected, After
<1>1. ASSUME NEW c \in Calls, Fetch(c) PROVE Complete'
  BY <1>1 DEF TypeInv, Built, Complete, Starting, Fetch, Goto, startVars
<1>2. ASSUME NEW c \in Calls, Make(c) PROVE Complete'
  BY <1>2 DEF TypeInv, Built, Complete, Starting, Make, Goto, startVars
<1>3. ASSUME NEW c \in Calls, FindLoaded(c) PROVE Complete'
  BY <1>3 DEF TypeInv, Built, Complete, Starting, FindLoaded, Goto, startVars
<1>4. ASSUME NEW c \in Calls, Load(c) PROVE Complete'
  BY <1>4 DEF TypeInv, Built, Complete, Starting, Load, Goto, startVars
<1>5. ASSUME NEW c \in Calls, FindManager(c) PROVE Complete'
  BY <1>5 DEF TypeInv, Built, Complete, Starting, FindManager, Goto, startVars
<1>6. ASSUME NEW c \in Calls, SetManager(c) PROVE Complete'
  BY <1>6 DEF TypeInv, Built, Complete, Starting, SetManager, Goto
<1>7. ASSUME NEW c \in Calls, SetPath(c) PROVE Complete'
  BY <1>7 DEF TypeInv, Built, Complete, Starting, SetPath, Goto, startVars
<1>8. ASSUME NEW c \in Calls, Connect(c) \/ Use(c) PROVE Complete'
  <2>1. Later(c)
    BY <1>8, LaterSteps
  <2> QED BY <2>1 DEF TypeInv, Complete, Later, startVars, Starting
<1>9. ASSUME NEW c \in Calls, Receive(c) PROVE Complete'
  BY <1>9 DEF TypeInv, Built, Complete, Starting, Receive, Goto, startVars
<1>10. CASE UNCHANGED vars
  BY <1>10 DEF Complete, vars, Starting
<1> QED
  BY <1>1, <1>2, <1>3, <1>4, <1>5, <1>6, <1>7, <1>8, <1>9, <1>10 DEF Next, GetInstance

LEMMA DisturbedGrows ==
  ASSUME [Next]_vars
  PROVE  disturbed \subseteq disturbed'
BY DEF Next, GetInstance, Connect, Use, Fetch, Make, Receive, FindLoaded, Load, FindManager, SetManager,
       SetPath, Assign, Verify, Put, Execute, Commit, Rollback, Disconnect, Disturbs, managerVars, vars

LEMMA AloneStep ==
  TypeInv /\ Built /\ AloneOrFinal /\ [Next]_vars => AloneOrFinal'
<1> SUFFICES ASSUME TypeInv, Built, AloneOrFinal, [Next]_vars PROVE AloneOrFinal'
  OBVIOUS
<1> USE Names, DisturbedGrows DEF Named, StartSteps, Connected, After
<1>1. ASSUME NEW c \in Calls, Fetch(c) PROVE AloneOrFinal'
  BY <1>1 DEF TypeInv, Built, AloneOrFinal, Starting, Fetch, Goto, startVars, Disturbs
<1>2. ASSUME NEW c \in Calls, Make(c) PROVE AloneOrFinal'
  BY <1>2 DEF TypeInv, Built, AloneOrFinal, Starting, Make, Goto, startVars
<1>3. ASSUME NEW c \in Calls, FindLoaded(c) PROVE AloneOrFinal'
  BY <1>3 DEF TypeInv, Built, AloneOrFinal, Starting, FindLoaded, Goto, startVars
<1>4. ASSUME NEW c \in Calls, Load(c) PROVE AloneOrFinal'
  BY <1>4 DEF TypeInv, Built, AloneOrFinal, Starting, Load, Goto, startVars
<1>5. ASSUME NEW c \in Calls, FindManager(c) PROVE AloneOrFinal'
  BY <1>5 DEF TypeInv, Built, AloneOrFinal, Starting, FindManager, Goto, startVars
<1>6. ASSUME NEW c \in Calls, SetManager(c) PROVE AloneOrFinal'
  BY <1>6 DEF TypeInv, Built, AloneOrFinal, Starting, SetManager, Goto
<1>7. ASSUME NEW c \in Calls, SetPath(c) PROVE AloneOrFinal'
  BY <1>7 DEF TypeInv, Built, AloneOrFinal, Starting, SetPath, Goto, startVars
<1>8. ASSUME NEW c \in Calls, Connect(c) \/ Use(c) PROVE AloneOrFinal'
  <2>1. Later(c)
    BY <1>8, LaterSteps
  <2> QED BY <2>1 DEF TypeInv, AloneOrFinal, Later, startVars, Starting
<1>9. ASSUME NEW c \in Calls, Receive(c) PROVE AloneOrFinal'
  BY <1>9 DEF TypeInv, Built, AloneOrFinal, Starting, Receive, Goto, startVars
<1>10. CASE UNCHANGED vars
  BY <1>10 DEF AloneOrFinal, vars, Starting
<1> QED
  BY <1>1, <1>2, <1>3, <1>4, <1>5, <1>6, <1>7, <1>8, <1>9, <1>10 DEF Next, GetInstance

\* Once a call that was not overlapped has the singleton, every manager is final.
LEMMA Final ==
  ASSUME TypeInv, AloneOrFinal, [Next]_vars,
         NEW c \in Calls \ disturbed', pc[c] \notin StartSteps \cup {"new"}
  PROVE  /\ c \in Calls \ disturbed
         /\ UNCHANGED managerOf
         /\ \A d \in Calls : pc[d] # "new" => UNCHANGED <<conn[d], Manager(d)>>
         /\ pc'[c] \notin StartSteps \cup {"new"}
         /\ pc'[c] = "connect" => pc[c] = "connect"
         /\ \A d \in Calls : pc'[d] \in {"verify", "put"} =>
              \/ pc[d] \in {"verify", "put"}
              \/ Assign(d) /\ pc'[d] = "verify"
<1>1. c \in Calls \ disturbed
  BY DisturbedGrows
<1>2. \A d \in Calls : pc[d] \notin StartSteps
  BY <1>1 DEF AloneOrFinal, Starting, StartSteps
<1> USE <1>1, <1>2 DEF StartSteps, Connected, After
<1>3. ASSUME NEW e \in Calls, Fetch(e)
      PROVE  /\ UNCHANGED managerOf
             /\ \A d \in Calls : pc[d] # "new" => UNCHANGED <<conn[d], Manager(d)>>
             /\ pc'[c] \notin StartSteps \cup {"new"}
             /\ pc'[c] = "connect" => pc[c] = "connect"
             /\ \A d \in Calls : pc'[d] \in {"verify", "put"} => pc[d] \in {"verify", "put"}
  BY <1>3 DEF TypeInv, Fetch, Goto, startVars, Manager
<1>4. ASSUME NEW e \in Calls, Connect(e) \/ Use(e)
      PROVE  /\ UNCHANGED managerOf
             /\ \A d \in Calls : pc[d] # "new" => UNCHANGED <<conn[d], Manager(d)>>
             /\ pc'[c] \notin StartSteps \cup {"new"}
             /\ pc'[c] = "connect" => pc[c] = "connect"
             /\ \A d \in Calls \ {e} : pc'[d] = pc[d]
  <2>1. Later(e)
    BY <1>4, LaterSteps
  <2> QED BY <2>1 DEF TypeInv, Later, startVars, Manager
<1>5. ASSUME NEW e \in Calls, Connect(e) \/ Use(e), pc'[e] \in {"verify", "put"}
      PROVE  pc[e] \in {"verify", "put"} \/ (Assign(e) /\ pc'[e] = "verify")
  BY <1>5 DEF TypeInv, Connect, Use, Assign, Verify, Put, Execute, Commit, Rollback, Disconnect, Goto, End
<1>6. ASSUME NEW e \in Calls, GetInstance(e)
      PROVE  Fetch(e)
  BY <1>6, <1>2 DEF GetInstance, Make, Receive, FindLoaded, Load, FindManager, SetManager, SetPath
<1>7. CASE UNCHANGED vars
  BY <1>7 DEF vars, Manager
<1>8. CASE Next
  BY <1>8, <1>3, <1>4, <1>5, <1>6 DEF Next
<1> QED BY <1>7, <1>8

(***************************************************************************)
(* The field and the table.                                                *)
(***************************************************************************)
\* Only Assign writes the field, and it disturbs whom it overlaps.
LEMMA FieldKept ==
  ASSUME TypeInv, Built, [Next]_vars
  PROVE  \/ UNCHANGED field
         \/ \E e \in Calls :
              /\ Assign(e) /\ Manager(e) \in Calls
              /\ field' = [field EXCEPT ![Manager(e)] = e]
              /\ pc' = [pc EXCEPT ![e] = "verify"]
              /\ Connecting(e) # {} => {e} \cup Connecting(e) \subseteq disturbed'
<1>1. ASSUME NEW e \in Calls, Assign(e), ~UNCHANGED field
      PROVE  /\ Manager(e) \in Calls
             /\ field' = [field EXCEPT ![Manager(e)] = e]
             /\ pc' = [pc EXCEPT ![e] = "verify"]
             /\ Connecting(e) # {} => {e} \cup Connecting(e) \subseteq disturbed'
  BY <1>1, ManagerType DEF Assign, Disturbs, managerVars, Goto, Named
<1>2. ASSUME NEW e \in Calls, GetInstance(e)
      PROVE  UNCHANGED field
  BY <1>2 DEF GetInstance, Fetch, Make, Receive, FindLoaded, Load, FindManager, SetManager, SetPath,
     managerVars
<1>3. ASSUME NEW e \in Calls, Verify(e) \/ Put(e) \/ Use(e)
      PROVE  UNCHANGED field
  BY <1>3 DEF Use, Verify, Put, Execute, Commit, Rollback, Disconnect, managerVars
<1> QED BY <1>1, <1>2, <1>3 DEF Next, Connect, vars

LEMMA FieldStep ==
  TypeInv /\ Built /\ AloneOrFinal /\ FieldInv /\ [Next]_vars => FieldInv'
<1> SUFFICES ASSUME TypeInv, Built, AloneOrFinal, FieldInv, [Next]_vars,
                    NEW c \in Calls \ disturbed'
             PROVE  /\ pc'[c] \in {"verify", "put"} => field'[Manager(c)'] = c
                    /\ \A m \in Calls :
                         field'[m] = c =>
                           /\ pc'[c] \notin StartSteps \cup {"new", "connect"}
                           /\ m = Manager(c)'
                           /\ Connecting(c)' = {}
  BY DEF FieldInv
<1>1. c \in Calls \ disturbed
  BY DisturbedGrows
<1>2. CASE pc[c] \in StartSteps \cup {"new"}
  <2>1. /\ pc'[c] \notin {"verify", "put"}
        /\ \A m \in Calls : field[m] # c
        /\ ~Assign(c)
    <3>1. ASSUME NEW e \in Calls, Connect(e) \/ Use(e)
          PROVE  pc'[c] = pc[c]
      BY <3>1, LaterSteps, <1>2 DEF Later, TypeInv, StartSteps, Connected, After
    <3>2. ASSUME NEW e \in Calls, GetInstance(e)
          PROVE  pc'[c] \notin {"verify", "put"}
      BY <3>2, <1>2 DEF GetInstance, Fetch, Make, Receive, FindLoaded, Load, FindManager, SetManager,
         SetPath, Goto, TypeInv, StartSteps
    <3>3. UNCHANGED vars => pc'[c] = pc[c]
      BY DEF vars
    <3>4. \A m \in Calls : field[m] # c
      BY <1>1, <1>2 DEF FieldInv
    <3> QED BY <3>1, <3>2, <3>3, <3>4, <1>2 DEF Next, Assign, StartSteps
  <2>2. \A m \in Calls : field'[m] # c
    BY <2>1, FieldKept DEF TypeInv
  <2> QED BY <2>1, <2>2
<1>3. CASE pc[c] \notin StartSteps \cup {"new"}
  <2>1. /\ UNCHANGED managerOf
        /\ \A d \in Calls : pc[d] # "new" => UNCHANGED <<conn[d], Manager(d)>>
        /\ pc'[c] \notin StartSteps \cup {"new"}
        /\ pc'[c] = "connect" => pc[c] = "connect"
        /\ \A d \in Calls : pc'[d] \in {"verify", "put"} =>
             \/ pc[d] \in {"verify", "put"}
             \/ Assign(d) /\ pc'[d] = "verify"
    BY <1>3, Final
  <2>2. /\ pc[c] \in {"verify", "put"} => field[Manager(c)] = c
        /\ \A m \in Calls :
             field[m] = c => pc[c] # "connect" /\ m = Manager(c) /\ Connecting(c) = {}
    BY <1>1 DEF FieldInv
  <2>3. \A d, e \in Calls : pc[d] # "new" /\ pc[e] # "new" =>
          (Manager(d)' = Manager(e)' <=> Manager(d) = Manager(e))
    BY <2>1
  <2>4. \A d \in Calls : d \in Connecting(c)' =>
          d \in Connecting(c) \/ (Assign(d) /\ pc'[d] = "verify" /\ Manager(d) = Manager(c))
    BY <1>3, <2>1, <2>3 DEF Connecting, Assign
  <2>5. ASSUME NEW d \in Calls, Assign(d), pc'[d] = "verify"
        PROVE  /\ Manager(d) \in Calls
               /\ field' = [field EXCEPT ![Manager(d)] = d]
               /\ pc' = [pc EXCEPT ![d] = "verify"]
               /\ Connecting(d) # {} => {d} \cup Connecting(d) \subseteq disturbed'
    BY <2>5, ManagerType DEF Assign, Disturbs, Goto, End, TypeInv, Named
  <2>6. CASE \A d \in Calls : ~(Assign(d) /\ pc'[d] = "verify")
    <3>1. UNCHANGED field
      BY <2>6, FieldKept DEF TypeInv
    <3>2. Connecting(c)' \subseteq Connecting(c)
      BY <2>6, <2>4 DEF Connecting
    <3> QED BY <3>1, <3>2, <2>1, <2>2, <2>6, <1>3
  <2>7. ASSUME Assign(c), pc'[c] = "verify"
        PROVE  /\ field'[Manager(c)'] = c
               /\ \A m \in Calls : field'[m] = c => m = Manager(c)' /\ Connecting(c)' = {}
    <3>1. Connecting(c)' \subseteq Connecting(c)
      <4>1. \A d \in Connecting(c)' : d \in Calls /\ d # c /\ pc'[d] = pc[d]
        BY <2>5, <2>7 DEF Connecting, TypeInv
      <4> QED BY <4>1, <2>4 DEF Assign, Connecting
    <3>2. pc[c] = "connect" /\ Manager(c)' = Manager(c)
      BY <2>1, <2>7 DEF Assign
    <3> QED BY <3>1, <3>2, <2>2, <2>5, <2>7 DEF TypeInv
  <2>8. ASSUME NEW d \in Calls \ {c}, Assign(d), pc'[d] = "verify"
        PROVE  /\ pc'[c] \in {"verify", "put"} => field'[Manager(c)'] = c
               /\ \A m \in Calls :
                    field'[m] = c =>
                      pc'[c] # "connect" /\ m = Manager(c)' /\ Connecting(c)' = {}
    <3>1. /\ Manager(d) \in Calls /\ Manager(c)' = Manager(c) /\ pc'[c] = pc[c]
          /\ \A m \in Calls : field'[m] = IF m = Manager(d) THEN d ELSE field[m]
      BY <2>1, <2>5, <2>8, <1>3 DEF TypeInv
    <3>2. Manager(d) # Manager(c) \/ pc[c] \notin {"verify", "put"}
      BY <2>5, <2>8 DEF Connecting
    <3>3. ASSUME NEW e \in Calls, Assign(e), pc'[e] = "verify"
          PROVE  e = d
      <4>1. pc' = [pc EXCEPT ![d] = "verify"]
        BY <2>5, <2>8
      <4>2. pc[e] = "connect"
        BY <3>3 DEF Assign
      <4> QED BY <4>1, <4>2, <3>3 DEF TypeInv
    <3>4. pc[c] \in {"verify", "put"} => Manager(c) \in Calls
      BY ManagerType DEF Connected
    <3>5. Manager(d) # Manager(c) => Connecting(c)' \subseteq Connecting(c)
      BY <2>4, <3>3 DEF Connecting
    <3> QED BY <2>2, <3>1, <3>2, <3>4, <3>5
  <2> QED BY <2>1, <2>6, <2>7, <2>8
<1> QED BY <1>2, <1>3

\* What the step of one call changes for another.
LEMMA OtherStep ==
  ASSUME TypeInv, Built, NEW c \in Calls, NEW e \in Calls \ {c},
         GetInstance(e) \/ Connect(e) \/ Use(e)
  PROVE  /\ pc'[c] = pc[c] /\ outcome'[c] = outcome[c] /\ failedAt'[c] = failedAt[c]
         /\ c \in open => c \in open' \/ (pc[e] = "disconnect" /\ Number(e) = c)
         /\ c \in open' => c \in open \/ (pc[e] = "verify" /\ field[Manager(e)] = c)
         /\ \/ pending'[c] = pending[c]
            \/ pc[e] = "disconnect" /\ pending[c] = Number(e)
         /\ \A m, d \in Calls :
              \/ table'[m][d] = table[m][d]
              \/ d = e /\ table'[m][d] = None
              \/ d = e /\ pc[e] = "put" /\ m = Manager(e) /\ table'[m][d] = field[m]
<1>1. ASSUME Works \/ Fails(e) PROVE failedAt'[c] = failedAt[c]
  BY <1>1 DEF Works, Fails, faultVars, TypeInv
<1>2. CASE GetInstance(e)
  BY <1>2 DEF GetInstance, Fetch, Make, Receive, FindLoaded, Load, FindManager, SetManager, SetPath,
     Goto, managerVars, faultVars, TypeInv
<1>3. CASE Assign(e)
  BY <1>3 DEF Assign, End, Goto, managerVars, faultVars, TypeInv
<1>4. CASE Verify(e)
  BY <1>1, <1>4 DEF Verify, End, Goto, TypeInv
<1>5. CASE Put(e)
  <2>1. Manager(e) \in Calls
    BY <1>5, ManagerType DEF Put, Connected
  <2>2. \/ UNCHANGED table
        \/ table' = [table EXCEPT ![Manager(e)][e] = field[Manager(e)]]
    BY <1>5 DEF Put
  <2>3. table \in [Calls -> [Calls -> Named]]
    BY DEF TypeInv
  <2>4. \A m, d \in Calls :
              \/ table'[m][d] = table[m][d]
              \/ d = e /\ m = Manager(e) /\ table'[m][d] = field[m]
    BY <2>1, <2>2, <2>3
  <2>5. /\ pc' = [pc EXCEPT ![e] = "execute"] /\ pc[e] = "put"
        /\ UNCHANGED <<open, pending, outcome, failedAt>>
    BY <1>5 DEF Put, Goto, faultVars
  <2> QED BY <2>4, <2>5 DEF TypeInv
<1>6. CASE Execute(e)
  BY <1>1, <1>6 DEF Execute, Failed, Goto, managerVars, TypeInv
<1>7. CASE Commit(e)
  BY <1>1, <1>7 DEF Commit, Failed, Goto, managerVars, TypeInv
<1>8. CASE Rollback(e)
  BY <1>1, <1>8 DEF Rollback, Revert, Throws, Goto, managerVars, TypeInv
<1>9. CASE Disconnect(e)
  <2>1. Manager(e) \in Calls
    BY <1>9, ManagerType DEF Disconnect, Connected, After
  <2>2. UNCHANGED table \/ table' = [table EXCEPT ![Manager(e)][e] = None]
    BY <1>9 DEF Disconnect
  <2>3. table \in [Calls -> [Calls -> Named]]
    BY DEF TypeInv
  <2>4. \A m, d \in Calls : table'[m][d] = table[m][d] \/ (d = e /\ table'[m][d] = None)
    BY <2>1, <2>2, <2>3
  <2>5. /\ pc' = [pc EXCEPT ![e] = "done"] /\ pc[e] = "disconnect"
        /\ outcome'[c] = outcome[c] /\ failedAt'[c] = failedAt[c]
    BY <1>1, <1>9 DEF Disconnect, Throws, Goto, Failed, Ended, TypeInv
  <2>6. \/ UNCHANGED <<open, pending>>
        \/ /\ open' = open \ {Number(e)}
           /\ pending'[c] = IF pending[c] = Number(e) THEN None ELSE pending[c]
    BY <1>9 DEF Disconnect, Close
  <2> QED BY <2>4, <2>5, <2>6 DEF TypeInv
<1> QED BY <1>2, <1>3, <1>4, <1>5, <1>6, <1>7, <1>8, <1>9 DEF Connect, Use

\* No other call has the factory of a call that was not overlapped.
LEMMA NotAnothers ==
  ASSUME TypeInv, Built, FieldInv, TableInv,
         NEW c \in Calls \ disturbed, NEW e \in Calls \ {c}
  PROVE  /\ pc[e] \in {"verify", "put"} => field[Manager(e)] # c
         /\ pc[e] \in After => Number(e) # c
<1>1. ASSUME pc[e] \in {"verify", "put"}, field[Manager(e)] = c
      PROVE  FALSE
  <2>1. Manager(e) \in Calls
    BY <1>1, ManagerType DEF Connected, After
  <2>2. Manager(e) = Manager(c) /\ Connecting(c) = {}
    BY <1>1, <2>1 DEF FieldInv
  <2>3. e \in Connecting(c)
    BY <1>1, <2>2 DEF Connecting
  <2> QED BY <2>2, <2>3
<1>2. ASSUME pc[e] \in After, Number(e) = c
      PROVE  FALSE
  BY <1>2, ManagerType DEF Connected, After, TableInv
<1> QED BY <1>1, <1>2

\* So its step leaves what the other relies on.
LEMMA OtherLeaves ==
  ASSUME TypeInv, Built, AloneOrFinal, FieldInv, TableInv, OpenInv, PendingInv, [Next]_vars,
         NEW c \in Calls \ disturbed', NEW e \in Calls \ {c},
         GetInstance(e) \/ Connect(e) \/ Use(e)
  PROVE  /\ c \in Calls \ disturbed
         /\ pc'[c] = pc[c] /\ outcome'[c] = outcome[c] /\ failedAt'[c] = failedAt[c]
         /\ c \in open' <=> c \in open
         /\ pc[c] = "commit" => pending'[c] = pending[c]
         /\ \A m, d \in Calls : (table'[m][d] = c) <=> (table[m][d] = c)
         /\ pc[c] \notin StartSteps \cup {"new"} => Manager(c)' = Manager(c)
<1>1. c \in Calls \ disturbed
  BY DisturbedGrows
<1>2. pc[c] = "commit" => pending[c] = c
  BY <1>1 DEF PendingInv
<1>3. pc[c] \notin StartSteps \cup {"new"} => Manager(c)' = Manager(c)
  BY Final
<1>4. \A m, d \in Calls : (table'[m][d] = c) <=> (table[m][d] = c)
  <2> SUFFICES ASSUME NEW m \in Calls, NEW d \in Calls
               PROVE  (table'[m][d] = c) <=> (table[m][d] = c)
    OBVIOUS
  <2>1. d = e => table[m][d] # c
    BY <1>1 DEF TableInv
  <2>2. c # None
    BY Names
  <2>3. pc[e] = "put" => field[Manager(e)] # c
    BY <1>1, NotAnothers
  <2> QED BY <2>1, <2>2, <2>3, OtherStep
<1>5. /\ pc'[c] = pc[c] /\ outcome'[c] = outcome[c] /\ failedAt'[c] = failedAt[c]
      /\ c \in open' <=> c \in open
      /\ pc[c] = "commit" => pending'[c] = pending[c]
  BY <1>1, <1>2, NotAnothers, OtherStep DEF After
<1> QED BY <1>1, <1>3, <1>4, <1>5

(***************************************************************************)
(* What a call that was not overlapped relies on.                          *)
(***************************************************************************)
Relies(c) ==
  /\ \A m, d \in Calls :
       table[m][d] = c =>
         /\ d = c /\ m = Manager(c)
         /\ pc[c] \in After \/ (pc[c] = "done" /\ Kept(c))
  /\ pc[c] \in After => Number(c) = c
  /\ pc[c] \in {"put"} \cup After => c \in open
  /\ c \in open => pc[c] \in {"put"} \cup After \/ (pc[c] = "done" /\ Kept(c))
  /\ pc[c] = "commit" => c \in Removals /\ pending[c] = c
  /\ pc[c] = "rollback" => c \in Removals \/ "execute" \in failedAt[c]
  /\ outcome[c] = "failed" => failedAt[c] # {}
  /\ outcome[c] # "lost"

LEMMA ReliesAll ==
  (TableInv /\ OpenInv /\ PendingInv /\ CallFailsForAReason)
    <=> \A c \in Calls \ disturbed : Relies(c)
BY DEF TableInv, OpenInv, PendingInv, CallFailsForAReason, Relies

LEMMA OwnStart ==
  ASSUME TypeInv, Built, NEW c \in Calls, Relies(c), GetInstance(c)
  PROVE  Relies(c)'
<1>1. /\ UNCHANGED <<table, open, pending, outcome, failedAt>>
      /\ pc[c] \in StartSteps \cup {"new"} /\ pc'[c] \in StartSteps \cup {"connect"}
  BY DEF GetInstance, Fetch, Make, Receive, FindLoaded, Load, FindManager, SetManager, SetPath, Goto,
     managerVars, faultVars, TypeInv, StartSteps
<1> QED BY <1>1 DEF Relies, StartSteps, After

\* A failure of the database is remembered with the step it hit.
LEMMA FailsAt ==
  ASSUME TypeInv, NEW c \in Calls, Fails(c)
  PROVE  failedAt'[c] = failedAt[c] \cup {pc[c]}
BY DEF Fails, TypeInv

LEMMA OwnStep ==
  ASSUME TypeInv, Built, Complete, AloneOrFinal, FieldInv, [Next]_vars,
         NEW c \in Calls \ disturbed', Relies(c), Connect(c) \/ Use(c)
  PROVE  Relies(c)'
<1>1. c \in Calls \ disturbed
  BY DisturbedGrows
<1>2. pc[c] \in {"connect"} \cup Connected
  BY LaterSteps DEF Later
<1>3. /\ Manager(c)' = Manager(c)
      /\ pc[c] # "connect" => Manager(c) \in Calls /\ Number(c) = table[Manager(c)][c]
      /\ pc[c] \in {"verify", "put"} => field[Manager(c)] = c
      /\ path /\ Manager(c) # None
  <2>1. Manager(c)' = Manager(c)
    BY <1>2, Final DEF StartSteps, Connected, After
  <2>2. path /\ Manager(c) # None
    <3>1. instance # None /\ instance \in Calls /\ conn[c] = instance /\ Starting = {}
      BY <1>1, <1>2 DEF AloneOrFinal, StartSteps, Connected, After, TypeInv, Named
    <3>2. pc[instance] \notin StartSteps
      BY <3>1 DEF Starting, StartSteps
    <3> QED BY <3>1, <3>2, Names DEF Complete, Manager, StartSteps
  <2> QED BY <2>1, <2>2, <1>1, ManagerType, <1>2 DEF FieldInv
<1>4. pc[c] \in After =>
        /\ Number(c) = c /\ c \in open
        /\ UNCHANGED table => Number(c)' = c
        /\ Throws(c) => Fails(c)
  BY <1>3 DEF Relies, After, Number, Throws
<1>5. Works => failedAt'[c] = failedAt[c]
  BY DEF Works, faultVars
<1> USE DEF After
<1>6. CASE Assign(c)
  <2>1. /\ UNCHANGED <<table, open, outcome, pending, failedAt>>
        /\ pc[c] = "connect" /\ pc'[c] = "verify"
    BY <1>6, <1>3 DEF Assign, Goto, faultVars, TypeInv
  <2> QED BY <2>1 DEF Relies
<1>7. CASE Verify(c)
  <2>1. /\ UNCHANGED <<table, pending>>
        /\ pc[c] = "verify"
        /\ \/ /\ UNCHANGED outcome /\ failedAt'[c] = failedAt[c]
              /\ open' = open \cup {c} /\ pc'[c] = "put"
           \/ /\ failedAt'[c] # {} /\ UNCHANGED open
              /\ outcome'[c] = "failed" /\ pc'[c] = "done"
    <3>1. pc[c] = "verify" /\ field[Manager(c)] = c /\ path
      BY <1>3, <1>7 DEF Verify
    <3>2. Fails(c) => failedAt'[c] # {}
      BY FailsAt
    <3> QED BY <1>5, <1>7, <3>1, <3>2 DEF Verify, Goto, End, TypeInv
  <2> QED BY <2>1 DEF Relies
<1>8. CASE Put(c)
  <2>1. /\ table' = [table EXCEPT ![Manager(c)][c] = c]
        /\ UNCHANGED <<open, outcome, pending, failedAt>>
        /\ pc[c] = "put" /\ pc'[c] = "execute"
    BY <1>8, <1>3 DEF Put, Goto, Disturbs, faultVars, TypeInv
  <2>2. \A m, d \in Calls : table[m][d] # c
    BY <2>1 DEF Relies
  <2>3. table \in [Calls -> [Calls -> Named]] /\ Manager(c) \in Calls
    BY <1>3, <2>1 DEF TypeInv
  <2>4. /\ \A m, d \in Calls : table'[m][d] = c => d = c /\ m = Manager(c)
        /\ table'[Manager(c)][c] = c
    BY <2>1, <2>2, <2>3
  <2>5. Number(c)' = table'[Manager(c)'][c]
    BY DEF Number
  <2> QED BY <2>1, <2>2, <2>4, <2>5, <1>3 DEF Relies
<1>9. CASE Execute(c)
  <2>1. /\ UNCHANGED <<table, open>>
        /\ pc[c] = "execute"
        /\ \/ /\ UNCHANGED outcome /\ failedAt'[c] = failedAt[c]
              /\ c \in Removals => pending'[c] = c
              /\ pc'[c] = IF c \in Removals THEN "commit" ELSE "disconnect"
           \/ /\ "execute" \in failedAt'[c]
              /\ outcome'[c] = "failed" /\ pc'[c] = "rollback"
    BY <1>4, <1>5, <1>9, FailsAt DEF Execute, Failed, Goto, managerVars, TypeInv
  <2> QED BY <1>3, <1>4, <2>1 DEF Relies
<1>10. CASE Commit(c)
  <2>1. pc[c] = "commit" /\ pending[c] = c /\ c \in Removals
    BY <1>10 DEF Commit, Relies
  <2>2. /\ UNCHANGED <<table, open>>
        /\ \/ UNCHANGED outcome /\ failedAt'[c] = failedAt[c] /\ pc'[c] = "disconnect"
           \/ failedAt'[c] # {} /\ outcome'[c] = "failed" /\ pc'[c] = "rollback"
    <3>1. Number(c) \in open /\ pending[c] = Number(c)
      BY <1>4, <2>1
    <3>2. Fails(c) => failedAt'[c] # {}
      BY <2>1, FailsAt
    <3> QED BY <1>5, <1>10, <3>1, <3>2 DEF Commit, Failed, Goto, managerVars, TypeInv
  <2> QED BY <1>3, <1>4, <2>1, <2>2 DEF Relies
<1>11. CASE Rollback(c)
  <2>1. pc[c] = "rollback" /\ UNCHANGED <<table, open, outcome>>
    BY <1>11 DEF Rollback, managerVars
  <2>2. \/ failedAt'[c] = failedAt[c] /\ c \notin VersionReads /\ pc'[c] = "disconnect"
        \/ failedAt'[c] = failedAt[c] /\ c \in VersionReads /\ pc'[c] = "done"
        \/ /\ failedAt'[c] = failedAt[c] \cup {"rollback"}
           /\ pc'[c] = "done"
    BY <1>4, <1>5, <1>11, <2>1, FailsAt DEF Rollback, Goto, TypeInv
  <2>3. pc'[c] = "done" => Kept(c)'
    BY <2>1, <2>2, Names DEF Relies, Kept
  <2> QED BY <1>3, <1>4, <2>1, <2>2, <2>3 DEF Relies
<1>12. CASE Disconnect(c)
  <2>1. pc[c] = "disconnect" /\ pc'[c] = "done" /\ Number(c) = c /\ c \in open
    BY <1>4, <1>12 DEF Disconnect, Goto, TypeInv
  <2>2. \/ /\ table' = [table EXCEPT ![Manager(c)][c] = None]
           /\ open' = open \ {c} /\ failedAt'[c] = failedAt[c]
           /\ outcome'[c] = IF outcome[c] = "none" THEN "ok" ELSE outcome[c]
        \/ /\ UNCHANGED <<table, open>>
           /\ failedAt'[c] = failedAt[c] \cup {"disconnect"}
           /\ outcome'[c] = "failed"
    BY <1>4, <1>5, <1>12, <2>1, FailsAt DEF Disconnect, Close, Ended, Failed, TypeInv
  <2>3. CASE open' = open \ {c}
    <3>1. table \in [Calls -> [Calls -> Named]] /\ Manager(c) \in Calls /\ c # None
      BY <1>3, <2>1, Names DEF TypeInv
    <3>2. table' = [table EXCEPT ![Manager(c)][c] = None]
      BY <2>1, <2>2, <2>3
    <3>3. \A m, d \in Calls : table[m][d] = c => d = c /\ m = Manager(c)
      BY DEF Relies
    <3>4. \A m, d \in Calls : table'[m][d] # c
      BY <3>1, <3>2, <3>3
    <3> QED BY <2>1, <2>2, <2>3, <3>4 DEF Relies
  <2>4. CASE UNCHANGED <<table, open>> /\ failedAt'[c] = failedAt[c] \cup {"disconnect"}
    <3>1. Kept(c)'
      BY <2>4 DEF Kept
    <3> QED BY <1>3, <2>1, <2>2, <2>4, <3>1 DEF Relies
  <2> QED BY <2>2, <2>3, <2>4
<1> QED BY <1>6, <1>7, <1>8, <1>9, <1>10, <1>11, <1>12 DEF Connect, Use

LEMMA OtherKeeps ==
  ASSUME ConnInv, [Next]_vars, NEW c \in Calls \ disturbed', NEW e \in Calls \ {c},
         GetInstance(e) \/ Connect(e) \/ Use(e)
  PROVE  Relies(c)'
<1>1. /\ c \in Calls \ disturbed
      /\ pc'[c] = pc[c] /\ outcome'[c] = outcome[c] /\ failedAt'[c] = failedAt[c]
      /\ c \in open' <=> c \in open
      /\ pc[c] = "commit" => pending'[c] = pending[c]
      /\ \A m, d \in Calls : (table'[m][d] = c) <=> (table[m][d] = c)
      /\ pc[c] \notin StartSteps \cup {"new"} => Manager(c)' = Manager(c)
  BY OtherLeaves DEF ConnInv
<1>2. Relies(c)
  BY <1>1, ReliesAll DEF ConnInv
<1>3. Kept(c)' <=> Kept(c)
  BY <1>1 DEF Kept
<1>4. pc[c] \in After =>
        Manager(c) \in Calls /\ Number(c) = table[Manager(c)][c]
  BY ManagerType DEF ConnInv, Connected, After
<1>5. Number(c)' = table'[Manager(c)'][c]
  BY DEF Number
<1> QED BY <1>1, <1>2, <1>3, <1>4, <1>5 DEF Relies, StartSteps, After

LEMMA ConnStep ==
  ConnInv /\ [Next]_vars => ConnInv'
<1> SUFFICES ASSUME ConnInv, [Next]_vars PROVE ConnInv'
  OBVIOUS
<1>1. TypeInv' /\ Built' /\ Complete' /\ AloneOrFinal' /\ FieldInv'
  BY TypeStep, BuiltStep, CompleteStep, AloneStep, FieldStep DEF ConnInv
<1>2. ASSUME NEW c \in Calls \ disturbed' PROVE Relies(c)'
  <2>1. Relies(c)
    BY DisturbedGrows, ReliesAll DEF ConnInv
  <2>2. CASE GetInstance(c) \/ Connect(c) \/ Use(c)
    BY <2>1, <2>2, OwnStart, OwnStep DEF ConnInv
  <2>3. ASSUME NEW e \in Calls \ {c}, GetInstance(e) \/ Connect(e) \/ Use(e)
        PROVE  Relies(c)'
    BY <2>3, OtherKeeps
  <2>4. CASE UNCHANGED vars
    BY <2>1, <2>4 DEF Relies, Kept, Number, Manager, vars
  <2> QED BY <2>2, <2>3, <2>4 DEF Next
<1>3. ((TableInv /\ OpenInv /\ PendingInv /\ CallFailsForAReason)
         <=> \A c \in Calls \ disturbed : Relies(c))'
  BY ReliesAll, PTL
<1>4. TableInv' /\ OpenInv' /\ PendingInv' /\ CallFailsForAReason'
  BY <1>2, <1>3
<1> QED BY <1>1, <1>4 DEF ConnInv

LEMMA ConnInit == Init => ConnInv
<1> SUFFICES ASSUME Init PROVE ConnInv
  OBVIOUS
<1> USE Names DEF Init, Named, StartSteps, Connected, After, Steps
<1>1. TypeInv /\ Built /\ Complete /\ AloneOrFinal
  BY DEF TypeInv, Built, Complete, AloneOrFinal
<1>2. FieldInv /\ TableInv /\ OpenInv /\ PendingInv /\ CallFailsForAReason
  BY DEF FieldInv, TableInv, OpenInv, PendingInv, CallFailsForAReason
<1> QED BY <1>1, <1>2 DEF ConnInv

LEMMA ConnInvariant == Spec => []ConnInv
BY ConnInit, ConnStep, PTL DEF Spec

\* Every query and command has a connection of its own, which is open, for any
\* number of calls at a time: what the graph modules take for granted of executeQuery
\* and commit, and what connect with its shared field gives to calls that no other
\* overlaps there.
THEOREM ConnectionsAreOwn == Spec => []OwnConnection
<1>1. ConnInv => OwnConnection
  <2> SUFFICES ASSUME ConnInv, NEW c \in Calls \ disturbed,
                      pc[c] \in After
               PROVE  /\ Number(c) = c /\ c \in open
                      /\ \A d \in Calls \ {c} :
                           Manager(d) # None => table[Manager(d)][d] # c
    BY DEF OwnConnection, After
  <2>1. TypeInv /\ TableInv /\ OpenInv
    BY DEF ConnInv
  <2>2. \A d \in Calls : Manager(d) # None => Manager(d) \in Calls
    BY <2>1 DEF Manager, TypeInv, Named
  <2> QED BY <2>1, <2>2 DEF TableInv, OpenInv
<1> QED BY <1>1, ConnInvariant, PTL

\* A call that no other overlapped in getInstance or connect fails only if the
\* database has failed it, and takes no commit for success that made nothing,
\* whatever fails of the others.
THEOREM FailuresHaveReasons == Spec => []CallFailsForAReason
<1>1. ConnInv => CallFailsForAReason
  BY DEF ConnInv
<1> QED BY <1>1, ConnInvariant, PTL

\* The calls that were not overlapped give back what they opened, also when their
\* query, removal or commit fails, unless rollback or disconnect has failed too, but
\* for the first query of updatePolicy.
THEOREM ConnectionsAreGivenBack == Spec => []GivenBack
<1>1. ConnInv => GivenBack
  <2> SUFFICES ASSUME ConnInv, NEW c \in Calls \ disturbed, pc[c] = "done", ~Kept(c)
               PROVE  c \notin open /\ \A m, d \in Calls : table[m][d] # c
    BY DEF GivenBack, Kept
  <2> QED BY DEF ConnInv, OpenInv, TableInv, After
<1> QED BY <1>1, ConnInvariant, PTL
==============================================================================
