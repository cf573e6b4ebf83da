------------------------- MODULE SharedSecretProofs -------------------------
EXTENDS SharedSecret, TLAPS

(***************************************************************************)
(* The inductive invariant.  TypeOK alone is not inductive (Fetch looks up *)
(* the key of want[r], which must be a file), and the properties rest on   *)
(* where the page and the servlet of a client are at the same time.        *)
(***************************************************************************)
\* The second request of c is answered 200.
Answered(c) == page[c] = "done" \/ (page[c] = "request" /\ served[c] = "ok")

\* Page and servlet of a client keep step; a page may have given up.
InStep(c) ==
  /\ page[c] = "idle" => served[c] = "none"
  /\ page[c] = "done" => served[c] = "ok"
  /\ served[c] = "generate" => page[c] \in {"handshake", "failed"}
  /\ served[c] \in {"verify", "forget", "save", "fetch"} => page[c] \in {"request", "failed"}

\* Only the client's own request is verified with its secret.
HeldIsOwn(c) == served[c] \in {"forget", "save", "fetch"} => held[c] = c

\* A secret is in the context under its own device only, from the handshake to
\* the request it serves.
InContext(d, c) ==
  context[d] = c =>
    /\ d = DeviceId(c)
    /\ served[c] \notin {"none", "generate", "save", "fetch"}
    /\ ~Answered(c)

KeyIsOwn(p) ==
  /\ keys[p] \in {NoSecret, p}
  /\ Answered(p) => keys[p] = p

FetchedIsWanted(r) ==
  /\ page[r] # "idle" => want[r] \in Encrypted
  /\ Answered(r) => fetched[r] = want[r]

SecretInv ==
  /\ TypeOK
  /\ \A c \in Clients : InStep(c) /\ HeldIsOwn(c)
  /\ \A d \in Devices, c \in Clients : InContext(d, c)
  /\ \A p \in Protects : KeyIsOwn(p)
  /\ \A r \in Recovers : FetchedIsWanted(r)

LEMMA SecretInvInit == Init => SecretInv
<1> SUFFICES ASSUME Init PROVE SecretInv
  OBVIOUS
<1>1. TypeOK
  BY DEF Init, TypeOK, Waiting, Working, Clients
<1>2. \A c \in Clients : InStep(c) /\ HeldIsOwn(c) /\ ~Answered(c)
  BY DEF Init, InStep, HeldIsOwn, Answered
<1>3. \A d \in Devices, c \in Clients : InContext(d, c)
  BY ClientKinds DEF Init, InContext
<1>4. \A p \in Protects : KeyIsOwn(p)
  BY <1>2 DEF Init, KeyIsOwn, Clients
<1>5. \A r \in Recovers : FetchedIsWanted(r)
  BY <1>2 DEF Init, FetchedIsWanted, Clients
<1> QED BY <1>1, <1>2, <1>3, <1>4, <1>5 DEF SecretInv

LEMMA OwnDevice == \A c \in Clients : DeviceId(c) \in Devices
BY DEF Devices

LEMMA Kinds == Protects \subseteq Clients /\ Recovers \subseteq Clients /\ Encrypted \subseteq Protects
BY DEF Clients, Encrypted

LEMMA FaultCount == TypeOK /\ (Fault \/ NoFault) => faults' \in Nat /\ restarts' \in Nat
BY DEF TypeOK, Fault, NoFault, envVars

(***************************************************************************)
(* Every step preserves it.                                                *)
(***************************************************************************)
LEMMA TypeStep == SecretInv /\ [Next]_vars => TypeOK'
<1> SUFFICES ASSUME SecretInv, [Next]_vars PROVE TypeOK'
  OBVIOUS
<1> USE Kinds, OwnDevice DEF SecretInv, TypeOK, Waiting, Working, Show, Serve, Answer, pageVars
<1>1. ASSUME NEW p \in Protects, Protect(p) PROVE TypeOK'
  BY <1>1 DEF Protect, envVars
<1>2. ASSUME NEW r \in Recovers, Recover(r) PROVE TypeOK'
  BY <1>2 DEF Recover, envVars
<1>3. ASSUME NEW c \in Clients, Generate(c) PROVE TypeOK'
  BY <1>3, FaultCount DEF Generate
<1>4. ASSUME NEW c \in Clients, Verify(c) PROVE TypeOK'
  BY <1>4 DEF Verify, envVars
<1>5. ASSUME NEW c \in Clients, Forget(c) PROVE TypeOK'
  BY <1>5 DEF Forget, envVars
<1>6. ASSUME NEW p \in Protects, Save(p) PROVE TypeOK'
  BY <1>6, FaultCount DEF Save
<1>7. ASSUME NEW r \in Recovers, Fetch(r) PROVE TypeOK'
  <2>1. want[r] \in Protects
    BY <1>7 DEF Fetch, InStep, FetchedIsWanted
  <2> QED BY <1>7, <2>1, FaultCount DEF Fetch
<1>8. ASSUME NEW c \in Clients, Derive(c) PROVE TypeOK'
  BY <1>8, FaultCount DEF Derive
<1>9. ASSUME NEW c \in Clients, Finish(c) \/ Rejected(c) PROVE TypeOK'
  BY <1>9 DEF Finish, Rejected, envVars
<1>10. ASSUME NEW c \in Clients, Disconnect(c) PROVE TypeOK'
  BY <1>10, FaultCount DEF Disconnect
<1>11. CASE Restart
  BY <1>11 DEF Restart
<1>12. CASE UNCHANGED vars
  BY <1>12 DEF vars
<1> QED BY <1>1, <1>2, <1>3, <1>4, <1>5, <1>6, <1>7, <1>8, <1>9, <1>10, <1>11, <1>12
        DEF Next, Serving, Paging

\* Page and servlet of a client keep step.
LEMMA ClientStep ==
  ASSUME SecretInv, TypeOK', [Next]_vars, NEW k \in Clients
  PROVE  (InStep(k) /\ HeldIsOwn(k))'
<1> USE Kinds, OwnDevice, ClientKinds DEF SecretInv, TypeOK, Waiting, Working, Show, Serve, Answer, pageVars, envVars, vars, InStep, HeldIsOwn
<1>1. ASSUME NEW pp \in Protects, Protect(pp) PROVE (InStep(k) /\ HeldIsOwn(k))'
  BY <1>1 DEF Protect
<1>2. ASSUME NEW rr \in Recovers, Recover(rr) PROVE (InStep(k) /\ HeldIsOwn(k))'
  BY <1>2 DEF Recover
<1>3. ASSUME NEW cc \in Clients, Generate(cc) PROVE (InStep(k) /\ HeldIsOwn(k))'
  BY <1>3 DEF Generate
<1>4. ASSUME NEW cc \in Clients, Verify(cc) PROVE (InStep(k) /\ HeldIsOwn(k))'
  BY <1>4 DEF Verify
<1>5. ASSUME NEW cc \in Clients, Forget(cc) PROVE (InStep(k) /\ HeldIsOwn(k))'
  BY <1>5 DEF Forget
<1>6. ASSUME NEW pp \in Protects, Save(pp) PROVE (InStep(k) /\ HeldIsOwn(k))'
  BY <1>6 DEF Save
<1>7. ASSUME NEW rr \in Recovers, Fetch(rr) PROVE (InStep(k) /\ HeldIsOwn(k))'
  BY <1>7 DEF Fetch
<1>8. ASSUME NEW cc \in Clients, Derive(cc) PROVE (InStep(k) /\ HeldIsOwn(k))'
  BY <1>8 DEF Derive
<1>9. ASSUME NEW cc \in Clients, Finish(cc) PROVE (InStep(k) /\ HeldIsOwn(k))'
  BY <1>9 DEF Finish
<1>10. ASSUME NEW cc \in Clients, Rejected(cc) PROVE (InStep(k) /\ HeldIsOwn(k))'
  BY <1>10 DEF Rejected
<1>11. ASSUME NEW cc \in Clients, Disconnect(cc) PROVE (InStep(k) /\ HeldIsOwn(k))'
  BY <1>11 DEF Disconnect
<1>12. CASE Restart
  BY <1>12 DEF Restart
<1>13. CASE UNCHANGED vars
  BY <1>13
<1> QED BY <1>1, <1>2, <1>3, <1>4, <1>5, <1>6, <1>7, <1>8, <1>9, <1>10, <1>11, <1>12, <1>13
        DEF Next, Serving, Paging

\* The context holds a secret only while it waits for its request.
LEMMA ContextStep ==
  ASSUME SecretInv, TypeOK', [Next]_vars, NEW d \in Devices, NEW k \in Clients
  PROVE  InContext(d, k)'
<1> USE Kinds, OwnDevice, ClientKinds DEF SecretInv, TypeOK, Waiting, Working, Show, Serve, Answer, pageVars, envVars, vars, InStep, HeldIsOwn, InContext, Answered
<1>1. ASSUME NEW pp \in Protects, Protect(pp) PROVE InContext(d, k)'
  BY <1>1 DEF Protect
<1>2. ASSUME NEW rr \in Recovers, Recover(rr) PROVE InContext(d, k)'
  BY <1>2 DEF Recover
<1>3. ASSUME NEW cc \in Clients, Generate(cc) PROVE InContext(d, k)'
  BY <1>3 DEF Generate
<1>4. ASSUME NEW cc \in Clients, Verify(cc) PROVE InContext(d, k)'
  BY <1>4 DEF Verify
<1>5. ASSUME NEW cc \in Clients, Forget(cc) PROVE InContext(d, k)'
  BY <1>5 DEF Forget
<1>6. ASSUME NEW pp \in Protects, Save(pp) PROVE InContext(d, k)'
  BY <1>6 DEF Save
<1>7. ASSUME NEW rr \in Recovers, Fetch(rr) PROVE InContext(d, k)'
  BY <1>7 DEF Fetch
<1>8. ASSUME NEW cc \in Clients, Derive(cc) PROVE InContext(d, k)'
  BY <1>8 DEF Derive
<1>9. ASSUME NEW cc \in Clients, Finish(cc) PROVE InContext(d, k)'
  BY <1>9 DEF Finish
<1>10. ASSUME NEW cc \in Clients, Rejected(cc) PROVE InContext(d, k)'
  BY <1>10 DEF Rejected
<1>11. ASSUME NEW cc \in Clients, Disconnect(cc) PROVE InContext(d, k)'
  BY <1>11 DEF Disconnect
<1>12. CASE Restart
  BY <1>12 DEF Restart
<1>13. CASE UNCHANGED vars
  BY <1>13
<1> QED BY <1>1, <1>2, <1>3, <1>4, <1>5, <1>6, <1>7, <1>8, <1>9, <1>10, <1>11, <1>12, <1>13
        DEF Next, Serving, Paging

\* A key is wrapped as what its client holds.
LEMMA KeyStep ==
  ASSUME SecretInv, TypeOK', [Next]_vars, NEW k \in Protects
  PROVE  KeyIsOwn(k)'
<1> USE Kinds, OwnDevice, ClientKinds DEF SecretInv, TypeOK, Waiting, Working, Show, Serve, Answer, pageVars, envVars, vars, InStep, HeldIsOwn, KeyIsOwn, Answered
<1>1. ASSUME NEW pp \in Protects, Protect(pp) PROVE KeyIsOwn(k)'
  BY <1>1 DEF Protect
<1>2. ASSUME NEW rr \in Recovers, Recover(rr) PROVE KeyIsOwn(k)'
  BY <1>2 DEF Recover
<1>3. ASSUME NEW cc \in Clients, Generate(cc) PROVE KeyIsOwn(k)'
  BY <1>3 DEF Generate
<1>4. ASSUME NEW cc \in Clients, Verify(cc) PROVE KeyIsOwn(k)'
  BY <1>4 DEF Verify
<1>5. ASSUME NEW cc \in Clients, Forget(cc) PROVE KeyIsOwn(k)'
  BY <1>5 DEF Forget
<1>6. ASSUME NEW pp \in Protects, Save(pp) PROVE KeyIsOwn(k)'
  BY <1>6 DEF Save
<1>7. ASSUME NEW rr \in Recovers, Fetch(rr) PROVE KeyIsOwn(k)'
  BY <1>7 DEF Fetch
<1>8. ASSUME NEW cc \in Clients, Derive(cc) PROVE KeyIsOwn(k)'
  BY <1>8 DEF Derive
<1>9. ASSUME NEW cc \in Clients, Finish(cc) PROVE KeyIsOwn(k)'
  BY <1>9 DEF Finish
<1>10. ASSUME NEW cc \in Clients, Rejected(cc) PROVE KeyIsOwn(k)'
  BY <1>10 DEF Rejected
<1>11. ASSUME NEW cc \in Clients, Disconnect(cc) PROVE KeyIsOwn(k)'
  BY <1>11 DEF Disconnect
<1>12. CASE Restart
  BY <1>12 DEF Restart
<1>13. CASE UNCHANGED vars
  BY <1>13
<1> QED BY <1>1, <1>2, <1>3, <1>4, <1>5, <1>6, <1>7, <1>8, <1>9, <1>10, <1>11, <1>12, <1>13
        DEF Next, Serving, Paging

\* A page that recovers a key gets the one of its file.
LEMMA FetchedStep ==
  ASSUME SecretInv, TypeOK', [Next]_vars, NEW k \in Recovers
  PROVE  FetchedIsWanted(k)'
<1> USE Kinds, OwnDevice, ClientKinds DEF SecretInv, TypeOK, Waiting, Working, Show, Serve, Answer, pageVars, envVars, vars, InStep, FetchedIsWanted, KeyIsOwn, Answered, Encrypted
<1>1. ASSUME NEW pp \in Protects, Protect(pp) PROVE FetchedIsWanted(k)'
  BY <1>1 DEF Protect
<1>2. ASSUME NEW rr \in Recovers, Recover(rr) PROVE FetchedIsWanted(k)'
  BY <1>2 DEF Recover
<1>3. ASSUME NEW cc \in Clients, Generate(cc) PROVE FetchedIsWanted(k)'
  BY <1>3 DEF Generate
<1>4. ASSUME NEW cc \in Clients, Verify(cc) PROVE FetchedIsWanted(k)'
  BY <1>4 DEF Verify
<1>5. ASSUME NEW cc \in Clients, Forget(cc) PROVE FetchedIsWanted(k)'
  BY <1>5 DEF Forget
<1>6. ASSUME NEW pp \in Protects, Save(pp) PROVE FetchedIsWanted(k)'
  BY <1>6 DEF Save
<1>7. ASSUME NEW rr \in Recovers, Fetch(rr) PROVE FetchedIsWanted(k)'
  BY <1>7 DEF Fetch
<1>8. ASSUME NEW cc \in Clients, Derive(cc) PROVE FetchedIsWanted(k)'
  BY <1>8 DEF Derive
<1>9. ASSUME NEW cc \in Clients, Finish(cc) PROVE FetchedIsWanted(k)'
  BY <1>9 DEF Finish
<1>10. ASSUME NEW cc \in Clients, Rejected(cc) PROVE FetchedIsWanted(k)'
  BY <1>10 DEF Rejected
<1>11. ASSUME NEW cc \in Clients, Disconnect(cc) PROVE FetchedIsWanted(k)'
  BY <1>11 DEF Disconnect
<1>12. CASE Restart
  BY <1>12 DEF Restart
<1>13. CASE UNCHANGED vars
  BY <1>13
<1> QED BY <1>1, <1>2, <1>3, <1>4, <1>5, <1>6, <1>7, <1>8, <1>9, <1>10, <1>11, <1>12, <1>13
        DEF Next, Serving, Paging

LEMMA SecretInvInvariant == Spec => []SecretInv
<1>1. ASSUME SecretInv, [Next]_vars PROVE SecretInv'
  <2>1. TypeOK'
    BY <1>1, TypeStep
  <2>2. ASSUME NEW k \in Clients PROVE (InStep(k) /\ HeldIsOwn(k))'
    BY <1>1, <2>1, ClientStep
  <2>3. ASSUME NEW d \in Devices, NEW k \in Clients PROVE InContext(d, k)'
    BY <1>1, <2>1, ContextStep
  <2>4. ASSUME NEW k \in Protects PROVE KeyIsOwn(k)'
    BY <1>1, <2>1, KeyStep
  <2>5. ASSUME NEW k \in Recovers PROVE FetchedIsWanted(k)'
    BY <1>1, <2>1, FetchedStep
  <2>6. Devices' = Devices
    BY DEF Devices, DeviceId, Operation
  <2> QED BY <2>1, <2>2, <2>3, <2>4, <2>5, <2>6 DEF SecretInv
<1> QED BY <1>1, SecretInvInit, PTL DEF Spec

\* Type correctness, for any number of clients, users, faults and restarts.
THEOREM SecretTypeCorrect == Spec => []TypeOK
<1>1. SecretInv => TypeOK
  BY DEF SecretInv
<1> QED BY <1>1, SecretInvInvariant, PTL

\* A secret that has served its request is not in the context (removeAttribute in
\* Cpabe_Information and Get_Shared_Secret).
THEOREM SpentSecretsAreForgotten == Spec => []SpentIsForgotten
<1>1. SecretInv => SpentIsForgotten
  BY DEF SecretInv, SpentIsForgotten, InContext, Answered
<1> QED BY <1>1, SecretInvInvariant, PTL

(***************************************************************************)
(* Clicks do not disturb each other.  The device name keeps clicks apart   *)
(* if no user has the name of another with "decryption" behind it: the     *)
(* page puts the two together without a separator.                         *)
(***************************************************************************)
NamesApart ==
  \A c, d \in Clients :
    DeviceId(c) = DeviceId(d) => User[c] = User[d] /\ (c \in Recovers <=> d \in Recovers)

\* What may make a click fail.
Exposed(c) ==
  \/ faults + restarts > 0
  \/ c \in Recovers \ Entitled
  \/ \E d \in Clients \ {c} : User[d] = User[c] /\ (d \in Recovers <=> c \in Recovers)

\* Otherwise its secret is in the context until its request has been verified.
OnCourse(c) ==
  /\ page[c] # "failed" /\ served[c] # "error"
  /\ page[c] = "handshake" => served[c] \in {"generate", "ok"}
  /\ (page[c] = "handshake" /\ served[c] = "ok") \/ served[c] = "verify" =>
       context[DeviceId(c)] = c

CourseInv == \A c \in Clients : Exposed(c) \/ OnCourse(c)

LEMMA CourseStep ==
  ASSUME NamesApart, SecretInv, CourseInv, [Next]_vars
  PROVE  CourseInv'
<1> SUFFICES ASSUME NEW k \in Clients, ~Exposed(k)' PROVE OnCourse(k)'
  BY DEF CourseInv
<1>0. ~Exposed(k) /\ OnCourse(k) /\ faults = 0 /\ restarts = 0 /\ faults' = 0 /\ restarts' = 0
  <2>1. /\ faults \in Nat /\ restarts \in Nat
        /\ UNCHANGED faults \/ faults' = faults + 1
        /\ UNCHANGED restarts \/ restarts' = restarts + 1
    BY DEF SecretInv, TypeOK, Next, Serving, Paging, Protect, Recover, Generate, Verify, Forget, Save,
       Fetch, Derive, Finish, Rejected, Disconnect, Restart, Fault, NoFault, envVars, vars
  <2>2. faults + restarts = 0 /\ faults' + restarts' = 0
    BY <2>1 DEF Exposed
  <2>3. ~Exposed(k)
    BY <2>2 DEF Exposed
  <2> QED BY <2>1, <2>2, <2>3 DEF CourseInv
<1>1. \A d \in Clients \ {k} : DeviceId(d) # DeviceId(k)
  BY <1>0 DEF NamesApart, Exposed
<1>2. ~Fault
  BY <1>0 DEF Fault
<1>3. k \in Recovers => k \in Entitled /\ (page[k] # "idle" => keys[want[k]] # NoSecret)
  BY <1>0, ClientKinds DEF Exposed, SecretInv, FetchedIsWanted, KeyIsOwn, Answered, Encrypted, Clients
<1>4. k \notin {NoSecret, Unshared}
  BY ClientKinds
<1> USE <1>0, <1>1, <1>2, <1>3, <1>4, Kinds, OwnDevice, ClientKinds DEF SecretInv, TypeOK, Show, Serve, Answer, pageVars, InStep, OnCourse
<1>5. ASSUME NEW pp \in Protects, Protect(pp) PROVE OnCourse(k)'
  BY <1>5 DEF Protect
<1>6. ASSUME NEW rr \in Recovers, Recover(rr) PROVE OnCourse(k)'
  BY <1>6 DEF Recover
<1>7. ASSUME NEW cc \in Clients, Generate(cc) PROVE OnCourse(k)'
  BY <1>7 DEF Generate
<1>8. ASSUME NEW cc \in Clients, Verify(cc) PROVE OnCourse(k)'
  BY <1>8 DEF Verify
<1>9. ASSUME NEW cc \in Clients, Forget(cc) PROVE OnCourse(k)'
  BY <1>9 DEF Forget
<1>10. ASSUME NEW pp \in Protects, Save(pp) PROVE OnCourse(k)'
  BY <1>10 DEF Save
<1>11. ASSUME NEW rr \in Recovers, Fetch(rr) PROVE OnCourse(k)'
  BY <1>11 DEF Fetch
<1>12. ASSUME NEW cc \in Clients, Derive(cc) PROVE OnCourse(k)'
  BY <1>12 DEF Derive
<1>13. ASSUME NEW cc \in Clients, Finish(cc) PROVE OnCourse(k)'
  BY <1>13 DEF Finish
<1>14. ASSUME NEW cc \in Clients, Rejected(cc) PROVE OnCourse(k)'
  BY <1>14 DEF Rejected
<1>15. ASSUME NEW cc \in Clients, Disconnect(cc) PROVE OnCourse(k)'
  BY <1>15 DEF Disconnect
<1>16. ~Restart
  BY DEF Restart
<1>17. CASE UNCHANGED vars
  BY <1>17 DEF vars
<1> QED BY <1>5, <1>6, <1>7, <1>8, <1>9, <1>10, <1>11, <1>12, <1>13, <1>14, <1>15, <1>16, <1>17
        DEF Next, Serving, Paging

\* For users whose device names differ, a click fails only by a fault, a restart, a
\* personal key that does not satisfy the policy, or a click of the same user that
\* does the same (Generate_Shared_Secret, and the operation AbeProxyInterface sets).
THEOREM ClicksAreUndisturbed ==
  ASSUME NamesApart
  PROVE  Spec => []Undisturbed
<1>1. Init => CourseInv
  BY DEF Init, CourseInv, OnCourse
<1>2. SecretInv /\ CourseInv /\ [Next]_vars => CourseInv'
  BY CourseStep
<1>3. CourseInv => Undisturbed
  BY DEF CourseInv, Undisturbed, Exposed, OnCourse
<1> QED BY <1>1, <1>2, <1>3, SecretInvInvariant, PTL DEF Spec

(***************************************************************************)
(* Refinement: each step of a page or a servlet is a step of the vault or  *)
(* leaves it alone.                                                        *)
(***************************************************************************)
Kept == {p \in Protects : keys[p] = p}
Opened == [r \in Recovers |-> IF page[r] = "done" THEN <<want[r], fetched[r]>> ELSE <<>>]

LEMMA VaultStep == SecretInv /\ [Next]_vars => [Vault!Next]_(Vault!vars)
<1> SUFFICES ASSUME SecretInv, [Next]_vars PROVE [Vault!Next]_(Vault!vars)
  OBVIOUS
<1> DEFINE Same == Kept' = Kept /\ Encrypted' = Encrypted /\ Opened' = Opened
<1>0. Same => [Vault!Next]_(Vault!vars)
  BY DEF Kept, Opened, Vault!vars
<1> USE Kinds DEF SecretInv, TypeOK, Waiting, Working, Show, Serve, Answer, pageVars, envVars,
          InStep, HeldIsOwn, Kept, Encrypted, Opened
<1>1. ASSUME NEW p \in Protects, Protect(p) PROVE Same
  BY <1>1 DEF Protect
<1>2. ASSUME NEW r \in Recovers, Recover(r) PROVE Same
  BY <1>2 DEF Recover
<1>3. ASSUME NEW c \in Clients, Generate(c) PROVE Same
  BY <1>3 DEF Generate
<1>4. ASSUME NEW c \in Clients, Verify(c) PROVE Same
  BY <1>4 DEF Verify
<1>5. ASSUME NEW c \in Clients, Forget(c) PROVE Same
  BY <1>5 DEF Forget
<1>6. ASSUME NEW r \in Recovers, Fetch(r) PROVE Same
  BY <1>6 DEF Fetch
<1>7. ASSUME NEW c \in Clients, Derive(c) PROVE Same
  BY <1>7 DEF Derive
<1>8. ASSUME NEW c \in Clients, Rejected(c) PROVE Same
  BY <1>8 DEF Rejected
<1>9. ASSUME NEW c \in Clients, Disconnect(c) PROVE Same
  BY <1>9 DEF Disconnect
<1>10. ASSUME NEW p \in Protects, Save(p) PROVE Same \/ Vault!Keep(p)
  <2>1. held[p] = p /\ Encrypted' = Encrypted /\ Opened' = Opened
    BY <1>10 DEF Save
  <2>2. CASE UNCHANGED keys
    BY <2>1, <2>2
  <2>3. CASE keys' = [keys EXCEPT ![p] = held[p]]
    <3>1. Kept' = Kept \cup {p}
      BY <2>1, <2>3
    <3> QED BY <2>1, <3>1 DEF Vault!Keep
  <2> QED BY <1>10, <2>2, <2>3 DEF Save
<1>11. ASSUME NEW p \in Protects, Finish(p) PROVE Vault!Use(p)
  <2>1. keys[p] = p
    BY <1>11 DEF Finish, KeyIsOwn, Answered
  <2>2. Kept' = Kept /\ Opened' = Opened
    BY <1>11, ClientKinds DEF Finish
  <2>3. Encrypted' = Encrypted \cup {p}
    BY <1>11 DEF Finish
  <2> QED BY <2>1, <2>2, <2>3 DEF Vault!Use
<1>12. ASSUME NEW r \in Recovers, Finish(r) PROVE Vault!Open(r)
  <2>1. fetched[r] = want[r] /\ want[r] \in Encrypted
    BY <1>12 DEF Finish, FetchedIsWanted, Answered
  <2>2. Kept' = Kept /\ Encrypted' = Encrypted
    BY <1>12, ClientKinds DEF Finish
  <2>3. Opened[r] = <<>> /\ Opened' = [Opened EXCEPT ![r] = <<want[r], want[r]>>]
    <3>1. page[r] = "request" /\ page' = [page EXCEPT ![r] = "done"]
      BY <1>12 DEF Finish
    <3>2. Opened[r] = <<>>
      BY <3>1
    <3>3. UNCHANGED <<want, fetched>>
      BY <1>12 DEF Finish
    <3>4. ASSUME NEW q \in Recovers
          PROVE  Opened'[q] = IF q = r THEN <<want[r], want[r]>> ELSE Opened[q]
      BY <2>1, <3>1, <3>3
    <3> QED BY <3>2, <3>4
  <2> QED BY <2>1, <2>2, <2>3 DEF Vault!Open
<1>13. CASE Restart
  <2> Same BY <1>13 DEF Restart
  <2> QED BY <1>0
<1>14. CASE UNCHANGED vars
  <2> Same BY <1>14 DEF vars
  <2> QED BY <1>0
<1> HIDE DEF Same
<1> QED
  BY <1>0, <1>1, <1>2, <1>3, <1>4, <1>5, <1>6, <1>7, <1>8, <1>9, <1>10, <1>11, <1>12, <1>13, <1>14
     DEF Next, Serving, Paging, Clients, Vault!Next

\* The pages and the servlets implement the vault: no file is encrypted with a key
\* that was not kept, and a file is opened with its own key only.
THEOREM ImplementsVault == Spec => IsVault
<1>1. Init => Vault!Init
  BY ClientKinds DEF Init, Vault!Init, Encrypted, Clients
<1> QED BY <1>1, VaultStep, SecretInvInvariant, PTL DEF Spec, IsVault, Vault!Spec
=============================================================================
