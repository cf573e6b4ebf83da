---------------------------- MODULE SharedSecret ----------------------------
(***************************************************************************)
(* The ABE-Proxy's three servlets and the pages that call them.            *)
(*                                                                         *)
(* A client is one click in one tab: it protects the key of a file it is   *)
(* about to upload, or recovers the key of a file it downloads.  Either    *)
(* way it first agrees on a secret with the proxy (generate_shared_secret) *)
(* and then sends one request signed with it (cpabe_information or         *)
(* get_shared_secret).  In between the proxy keeps the secret in the       *)
(* servlet context, under the name of the device.  Threads of the          *)
(* container serve the requests of different clients at the same time.     *)
(*                                                                         *)
(* Every handshake has new key pairs, so the secret of a handshake is the  *)
(* client that began it; a protected key is that secret.                   *)
(***************************************************************************)
EXTENDS Naturals, Sequences

CONSTANTS
  Protects,      \* clicks that protect a key
  Recovers,      \* clicks that recover one
  User,          \* for each client, the name of its user
  Entitled,      \* recovering clients whose personal key satisfies the policies
  Storage,       \* configured key storage: "database" or "embedded"
  NoSecret,      \* no attribute, no key
  Unshared,      \* a secret (or null) that no client has
  MaxFaults,     \* bound: failed calls, lost connections, unusable key pairs
  MaxRestarts    \* bound: restarts of the proxy

Clients == Protects \cup Recovers

ASSUME ClientKinds ==
  /\ Protects \cap Recovers = {}
  /\ Entitled \subseteq Recovers
  /\ NoSecret \notin Clients \cup {Unshared}
  /\ Unshared \notin Clients

VARIABLES
  context,    \* the servlet context: a secret, or NoSecret, for each device name
  keys,       \* for each protecting client, the key wrapped under the id it was given
  page,       \* where the click of a client is
  served,     \* where the servlet is with the client's current request
  held,       \* for each client, the secret its second request was verified with
  want,       \* for each recovering client, the file it downloads (by its uploader)
  fetched,    \* for each recovering client, the key the servlet has unwrapped
  faults,     \* faults so far
  restarts    \* restarts so far

pageVars == <<page, want>>
envVars == <<faults, restarts>>
vars == <<context, keys, page, served, held, want, fetched, faults, restarts>>

\* Mutant: the page never sets its operation.
OperationUnset(c) == ""
Operation(c) == IF c \in Recovers THEN "decryption" ELSE ""
DeviceId(c) == "ABE-Service_" \o User[c] \o Operation(c)
Devices == {DeviceId(c) : c \in Clients}

Waiting == {"handshake", "request"}
Working == {"generate", "verify", "forget", "save", "fetch"}

\* Files encrypted with a protected key, each named by the client that uploads it.
Encrypted == {p \in Protects : page[p] = "done"}

Init ==
  /\ context = [d \in Devices |-> NoSecret]
  /\ keys = [p \in Protects |-> NoSecret]
  /\ page = [c \in Clients |-> "idle"]
  /\ served = [c \in Clients |-> "none"]
  /\ held = [c \in Clients |-> NoSecret]
  /\ want = [r \in Recovers |-> NoSecret]
  /\ fetched = [r \in Recovers |-> NoSecret]
  /\ faults = 0
  /\ restarts = 0

Fault == faults < MaxFaults /\ faults' = faults + 1 /\ UNCHANGED restarts
NoFault == UNCHANGED envVars

\* The servlet goes on to a step, or answers: "ok" is status 200, "error" is 400.
Serve(c, step) == served' = [served EXCEPT ![c] = step]
Answer(c, code) == Serve(c, code)
Show(c, state) == page' = [page EXCEPT ![c] = state] /\ UNCHANGED want

(***************************************************************************)
(* The page.                                                               *)
(***************************************************************************)
\* generateKey: the click posts the public half of a new key pair.
Protect(p) ==
  /\ page[p] = "idle"
  /\ Show(p, "handshake")
  /\ Serve(p, "generate")
  /\ UNCHANGED <<context, keys, held, fetched, envVars>>

\* decryptKey: the same, for a file whose first slice has arrived with its key_info.
Recover(r) ==
  /\ page[r] = "idle"
  /\ \E p \in Encrypted : want' = [want EXCEPT ![r] = p]
  /\ page' = [page EXCEPT ![r] = "handshake"]
  /\ Serve(r, "generate")
  /\ UNCHANGED <<context, keys, held, fetched, envVars>>

\* The proxy's public key has come: the page derives the secret and sends its
\* request, signed with it.  Deriving fails on a coordinate of fewer than 32 bytes.
Derive(c) ==
  /\ page[c] = "handshake" /\ served[c] = "ok"
  /\ \/ Show(c, "request") /\ Serve(c, "verify") /\ NoFault
     \/ Show(c, "failed") /\ UNCHANGED served /\ Fault
  /\ UNCHANGED <<context, keys, held, fetched>>

\* The answer of the second request: the key is ready for the slices.
Finish(c) ==
  /\ page[c] = "request" /\ served[c] = "ok"
  /\ Show(c, "done")
  /\ UNCHANGED <<context, keys, served, held, fetched, envVars>>

\* Mutant: the deferred of the second request is forgotten.
RejectedOnce(c) ==
  /\ page[c] = "handshake" /\ served[c] = "error"
  /\ Show(c, "failed")
  /\ UNCHANGED <<context, keys, served, held, fetched, envVars>>

\* A status other than 200 rejects the deferred of the click.
Rejected(c) ==
  /\ page[c] \in Waiting /\ served[c] = "error"
  /\ Show(c, "failed")
  /\ UNCHANGED <<context, keys, served, held, fetched, envVars>>

\* The connection breaks: the worker sees status 0 whatever the servlet does.
Disconnect(c) ==
  /\ page[c] \in Waiting
  /\ Show(c, "failed")
  /\ Fault
  /\ UNCHANGED <<context, keys, served, held, fetched>>

(***************************************************************************)
(* The servlets.                                                           *)
(***************************************************************************)
\* Generate_Shared_Secret: the secret goes into the context under the device's
\* name.  A point that does not decode leaves a null key there, with the same
\* answer; any other exception is answered before the context is touched.
Generate(c) ==
  /\ served[c] = "generate"
  /\ \/ context' = [context EXCEPT ![DeviceId(c)] = c] /\ Answer(c, "ok") /\ NoFault
     \/ context' = [context EXCEPT ![DeviceId(c)] = Unshared] /\ Answer(c, "ok") /\ Fault
     \/ UNCHANGED context /\ Answer(c, "error") /\ Fault
  /\ UNCHANGED <<keys, held, fetched, pageVars>>

\* Mutant: the tag of the request is not compared.
VerifyUntagged(c) ==
  /\ served[c] = "verify"
  /\ \/ /\ context[DeviceId(c)] # NoSecret
        /\ held' = [held EXCEPT ![c] = context[DeviceId(c)]]
        /\ Serve(c, "forget")
     \/ /\ context[DeviceId(c)] = NoSecret
        /\ UNCHANGED held
        /\ Answer(c, "error")
  /\ UNCHANGED <<context, keys, fetched, pageVars, envVars>>

\* Cpabe_Information and Get_Shared_Secret begin alike: the attribute of the
\* device is read, and the request must carry the tag made with that secret.
Verify(c) ==
  /\ served[c] = "verify"
  /\ \/ /\ context[DeviceId(c)] = c
        /\ held' = [held EXCEPT ![c] = context[DeviceId(c)]]
        /\ Serve(c, "forget")
     \/ /\ context[DeviceId(c)] # c
        /\ UNCHANGED held
        /\ Answer(c, "error")
  /\ UNCHANGED <<context, keys, fetched, pageVars, envVars>>

\* Mutant: the attribute is not removed.
ForgetNothing(c) ==
  /\ served[c] = "forget"
  /\ Serve(c, IF c \in Recovers THEN "fetch" ELSE "save")
  /\ UNCHANGED <<context, keys, held, fetched, pageVars, envVars>>

\* removeAttribute, once the request is decrypted.
Forget(c) ==
  /\ served[c] = "forget"
  /\ context' = [context EXCEPT ![DeviceId(c)] = NoSecret]
  /\ Serve(c, IF c \in Recovers THEN "fetch" ELSE "save")
  /\ UNCHANGED <<keys, held, fetched, pageVars, envVars>>

\* saveEncSymKey: the key is wrapped under the policy and stored under a new id.
\* A policy that cannot be parsed or a database that does not answer 201 is an
\* error; the record may have been inserted all the same.
Save(p) ==
  /\ served[p] = "save"
  /\ \/ keys' = [keys EXCEPT ![p] = held[p]] /\ Answer(p, "ok") /\ NoFault
     \/ UNCHANGED keys /\ Answer(p, "error") /\ Fault
     \/ /\ Storage = "database"
        /\ keys' = [keys EXCEPT ![p] = held[p]] /\ Answer(p, "error") /\ Fault
  /\ UNCHANGED <<context, held, fetched, pageVars>>

\* Mutant: all storage parameters are returned, not the value of encrypted_key.
FetchAll(r) ==
  /\ served[r] = "fetch" /\ r \in Entitled
  /\ fetched' = [fetched EXCEPT ![r] = keys]
  /\ Answer(r, "ok") /\ NoFault
  /\ UNCHANGED <<context, keys, held, pageVars>>

\* getEncSymKey and CPABE_decrypt: the key of the id in key_info, if the personal
\* key satisfies its policy, goes back encrypted under the secret of the handshake.
Fetch(r) ==
  /\ served[r] = "fetch"
  /\ \/ /\ r \in Entitled /\ keys[want[r]] # NoSecret
        /\ fetched' = [fetched EXCEPT ![r] = keys[want[r]]]
        /\ Answer(r, "ok") /\ NoFault
     \/ /\ r \notin Entitled \/ keys[want[r]] = NoSecret
        /\ UNCHANGED fetched /\ Answer(r, "error") /\ NoFault
     \/ /\ Storage = "database"
        /\ UNCHANGED fetched /\ Answer(r, "error") /\ Fault
  /\ UNCHANGED <<context, keys, held, pageVars>>

\* A restart empties the servlet context and ends the requests being served.
Restart ==
  /\ restarts < MaxRestarts
  /\ restarts' = restarts + 1
  /\ context' = [d \in Devices |-> NoSecret]
  /\ served' = [c \in Clients |-> IF served[c] \in Working THEN "error" ELSE served[c]]
  /\ UNCHANGED <<keys, held, fetched, pageVars, faults>>

Serving(c) ==
  \/ Generate(c) \/ Verify(c) \/ Forget(c)
  \/ c \in Protects /\ Save(c)
  \/ c \in Recovers /\ Fetch(c)

Paging(c) == Derive(c) \/ Finish(c) \/ Rejected(c)

Next ==
  \/ \E p \in Protects : Protect(p)
  \/ \E r \in Recovers : Recover(r)
  \/ \E c \in Clients : Serving(c) \/ Paging(c) \/ Disconnect(c)
  \/ Restart

Spec == Init /\ [][Next]_vars

\* The threads of the container and the event loops of the pages run.
Fairness == \A c \in Clients : WF_vars(Serving(c)) /\ WF_vars(Paging(c))
FairSpec == Spec /\ Fairness

(***************************************************************************)
(* Properties.                                                             *)
(***************************************************************************)
TypeOK ==
  /\ context \in [Devices -> Clients \cup {NoSecret, Unshared}]
  /\ keys \in [Protects -> Clients \cup {NoSecret, Unshared}]
  /\ page \in [Clients -> {"idle", "done", "failed"} \cup Waiting]
  /\ served \in [Clients -> {"none", "ok", "error"} \cup Working]
  /\ held \in [Clients -> Clients \cup {NoSecret, Unshared}]
  /\ want \in [Recovers -> Protects \cup {NoSecret}]
  /\ fetched \in [Recovers -> Clients \cup {NoSecret, Unshared}]
  /\ faults \in Nat
  /\ restarts \in Nat

\* The vault of KeyVault: a key is kept once it is wrapped as what it is, a file
\* used once its click is done, and opened with what the answer brought.
Vault == INSTANCE KeyVault WITH
  Files <- Protects,
  Readers <- Recovers,
  kept <- {p \in Protects : keys[p] = p},
  used <- Encrypted,
  opened <- [r \in Recovers |-> IF page[r] = "done" THEN <<want[r], fetched[r]>> ELSE <<>>]

\* No file is encrypted with a key that was not kept first, and a file is only
\* ever opened with its own key, whatever other clients, faults and restarts of
\* the proxy do in between: the pages and the servlets implement the vault
\* (generateKey, decryptKey, Cpabe_Information, Get_Shared_Secret).
IsVault == Vault!Spec

\* A secret that has served its request is never found in the context again, so
\* that a repeated request is refused (removeAttribute in both servlets).
SpentIsForgotten ==
  \A c \in Clients :
    served[c] \in {"save", "fetch"} \/ page[c] = "done" => \A d \in Devices : context[d] # c

\* Uploads and downloads of different users, and an upload and a download of one
\* user, do not disturb each other: a click fails only by a fault, a restart, a
\* personal key that does not satisfy the policy, or a click of the same user that
\* does the same (the operation in the device name of AbeProxyInterface).
Undisturbed ==
  \A c \in Clients :
    page[c] = "failed" =>
      \/ faults + restarts > 0
      \/ c \in Recovers \ Entitled
      \/ \E d \in Clients \ {c} : User[d] = User[c] /\ (d \in Recovers <=> c \in Recovers)

\* Every click ends, so the page that waits for it is unblocked (the deferreds of
\* generateKey and decryptKey).
ClickEnds == \A c \in Clients : page[c] \in Waiting ~> page[c] \in {"done", "failed"}
=============================================================================
