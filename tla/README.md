# VidAS in TLA+

VidAS stores videos that are encrypted in the browser under an attribute-based
policy (CP-ABE) and shared through a family of REST services. This directory
holds TLA+ modules of those services, TLC configurations that check them on
small instances, and proofs checked by TLAPS.

Paths below are relative to the repository. `NodeResources:157` means line 157
of that class.

## 1. Inventory

Every service is a Restlet (or servlet) application: one resource object per
request, one thread per request, no lock anywhere. What is shared between
requests is the database, the file system, the servlet context and a few static
fields, so the hard behaviour of this system is what concurrent requests, failed
commands and crashes do to those.

| Component | State it keeps | Operations | What is hard | What makes it correct |
|---|---|---|---|---|
| **Video_Storage_Service** (`NodeResources`, `dbmanager/DBConnection`) | the OrientDB graph of directories and videos, one encrypted file per video | `saveJsonEncryptedVideo` (append a slice; the last slice registers the video), `deleteElement`, `getElement` | every query and command opens its own connection: a handler is 5 to 30 separate database and file steps, all interleaving; errors are turned into empty answers; the file and the vertex are changed separately | the graph stays a forest; what is registered can be played; what is deleted is gone; what is acknowledged stays reachable; every request is answered |
| **Policies_Storage_Service** (`Dispatcher`, `DBPolicyConnection`) | the OrientDB graph of folders and policies, with old versions of a policy chained behind the current one | `saveElement` (create or update), `getElement` | read-modify-write of the version chain over several commands; folders and policies found by name | no acknowledged version is lost; versions count upwards; a listed name stays listed |
| **Storage_Service_DBManagement** (`OrientDBManager`) | the static pool factory, the map of open connections | `connect`, `executeQuery`, `commit`, `rollback`, `disconnect`, `deleteElement` | unsynchronised static state used by all request threads | a caller gets its own connection; connections are given back |
| **Token_Service** (`UserDataResourceImpl`, `LoginResourceJson`, `GenerateTokenResource`, `DefPolicyTokenResource`, `LogoutResource`, `RegistrationResource`, `h2`, `ldap`) | the H2 table of session secrets, LDAP users and token definitions | get user secret, login, generate token, logout, register | check-then-insert on the session table, secrets replaced while a login is under way, expiry in two time zones | a token is only issued under a live session; a session that has ended stays ended; of several logins at a time one gets in |
| **KeyGeneratorService** (`KeyGeneratorResource`, `PublicKeyResource`, `CpabeManager`, `cpabe`, `bswabe`) | the public and master key files | `getPublicKey`, `generateKeys`, key set-up on class loading, access trees | recursion over access trees; set-up races with the first reader of the key file | a key decrypts exactly the ciphertexts whose policy its attributes satisfy |
| **ABE-Proxy** (`Generate_Shared_Secret`, `Cpabe_Information`, `Get_Shared_Secret`) | one servlet-context attribute per device: the shared secret of the handshake; the saved encrypted symmetric keys | ECDH handshake, wrap a symmetric key, unwrap it | the secret is left under the device's name by one request, and read and removed by another; failures after the removal; two tabs of one device | a key is wrapped and unwrapped under the secret its own handshake agreed on; no secret outlives its use |
| **Browser client** (`FTI_Video_Service/resources`) | the pages' global variables, the tree, the token | upload in slices, download in slices, delete, policy editing, protect and recover keys | callbacks over global variables, slicing at the boundary, tokens that expire between two calls | slices are sent and put together in order; what is saved is what was uploaded |
| **FTI_Video_Service Java** (`restlet/proxy`, `NaiveAuthenticator`, `CustomVerifier`, `ldap`) | none (temporary files) | forwards requests to the other services with the caller's token | the client's token decides URL and method | what is forwarded is what the token allows |
| **Token verifiers** (`CustomVerifier`, `TokenAuthenticator` of each storage service) | none | verify the two nested tokens and compare method and URL with the request | several early returns | a request is served only with a valid token for that very action |

External: OrientDB (client 2.2), H2, LDAP, the Restlet container, the browser.
Not the program's own code: Blockly, jQuery, jsrsasign, CryptoJS, the pairing
library; deprecated and unrouted classes (`VideoResources`, `DirectoryResources`,
`FileManager`, `PublishingService`).

`PROJECT.json` lists the hazards of this code line by line, with the properties
that would catch each of them, or the reason why none does.

## 2. Modules and plan

| Module | What it models | Runs | Proofs |
|---|---|---|---|
| `OrientGraph` | the database as the two storage services use it | | |
| `VideoStorage` (section 3) | Video_Storage_Service | `VideoStorage_uploads`, `_failures`, `_serial`, `_leaves` | `VideoStorageProofs`, `VideoFilesProofs`, `VideoTreeProofs` |
| `PolicyBook`, `PolicyStorage` (section 4) | Policies_Storage_Service, and what it promises | `PolicyStorage_serial`, `_concurrent` | `PolicyStorageProofs` |
| `KeyVault`, `SharedSecret` (section 5) | ABE-Proxy and the pages that call it, and what the pages rely on | `SharedSecret_tabs` | `SharedSecretProofs` |
| `TokenSession` (section 6) | Token_Service, login page, proxy, token verifiers | `TokenSession_tabs`, `_kept` | `TokenSessionProofs` |
| `SliceTransfer` (section 7) | the bytes of a video from upload to download | `SliceTransfer_download` | `SliceTransferProofs` |
| `AccessTree` (section 8) | KeyGeneratorService and the policies drawn with blocks | `AccessTree_policies` | |
| `OrientConnections` (section 9) | how request threads share connections | `OrientConnections_start` | `OrientConnectionsProofs` |

How they fit together: `VideoStorage` and `PolicyStorage` both extend
`OrientGraph`, and each of their queries stands for one call of
`OrientConnections`, whose `OwnConnection` is what they assume.  `SliceTransfer`
takes one post of `VideoStorage` as one step and follows the bytes that
`VideoStorage` leaves out.  `SharedSecret` takes opening a key (`AccessTree`) as an
outcome; `TokenSession` takes the actions a token is for as names.

Order, by importance: the two stores, keys, sessions, bytes, policies,
connections.  All of these are done. Every safety invariant, action property and refinement
that a passing run checks is proved as a theorem of its specification, but for the
invariants of `AccessTree` (recursive operators); `OneTree`, `KeepsBook` and
`Undisturbed` under hypotheses that sections 3, 4 and 5 state. What stays with
TLC is liveness (`Answered`, `ClickEnds`, `DownloadsEnd`) and `AccessTree`.

The map covers about 4,500 lines: the greater part of what the services and pages
themselves do.  Most of the repository's lines are vendored scripts (Blockly,
jQuery, jsrsasign, CryptoJS and their messages: some 30,000 lines), JSON and
logging around the modelled steps, and trees and forms of the pages, which no
module stands for.

## 3. VideoStorage

### Correspondence

`VideoStorage.tla` has one action per step of a handler that another request can
observe or interfere with: a query, a command, a file operation. `pc[r]` is where
the handler of request `r` is; `loc[r]` holds its Java locals (`path`, `todo` the
names still to walk, `at` the current father, `node` the vertex it has just
created, `file` the path it read from the vertex, `seen` the records its
transaction read). `status[r]` is the HTTP status it was answered.

| Code | Actions |
|---|---|
| `saveJsonEncryptedVideo`, slices (`NodeResources:40-119`) | `Start`, `StartWithoutPath`, `Send`, `SendExtra` |
| `getRoot`, `createRoot` (`DBConnection:77-148`) | `GetRoot`, `CreateRoot` |
| `createFolderTree` (`DBConnection:186-262`) | `CheckSon`, `MakeDirectory`, `LinkDirectory` |
| `createFile` (`DBConnection:313-359`) | `CreateVideo`, `FindSon`, `AttachVideo` |
| `getLastNodeFromRelativePath` (`DBConnection:264-311`) | `LookUp`, `FindSon` |
| `deleteNodeById` (`DBConnection:414-457`) | `CheckLeaf`, `LoadNode`, `BeginRemove`, `DeleteFile`, `CommitRemove` |
| `getElement` (`NodeResources:222-346`) | `ListDirectory`, `ReadSlice` |
| `checkOrganization` (`NodeResources:348-369`) | `Start` with the first name of the path, then `createFolderTree` |

`OrientGraph.tla` is the database as these services use it. A command happens
completely or not at all; a command whose caller sees an exception may still have
happened (a lost answer), so every failing branch of a creating command offers
both. Queries have no `ORDER BY` and a class has several clusters, so "the first
answer" is any answer. The commit that removes a vertex fails when one of the
records it rewrites has changed since it was read.

A failed query is an empty answer, as in the code: `GetRoot` then creates
another root and `CheckSon` another folder. A crash (`Crash`) ends every request
in progress and leaves database and files.

Abstracted: names are a few strings; the file of an upload has a name of its own
(the page prefixes it with eight random bytes, `uploadVideo.html:217-246`), so
it is named by the upload; the content of a slice is its number; policies, dates
and metadata of the vertex are left out.

### Runs

| Run | What it shows |
|---|---|
| `VideoStorage_uploads` | two uploads building the same nested folders, one failure, one crash: `TypeOK`, `Forest`, `Acyclic` |
| `VideoStorage_failures` | an upload of two slices with a delete of its folder or of the video and a get of the video, a failure and a crash anywhere: `RegisteredIsStored`, `DeletedStaysDeleted`, `AcknowledgedIsAttached` (a video answered 201 keeps its edge unless one end of it was removed), and every request that arrived is answered (`Answered`) |
| `VideoStorage_serial` | two uploads, two deletes and a get, served one at a time without failures: the graph is one tree with unambiguous paths (`OneTree`) |
| `VideoStorage_leaves` | violation: `DBConnection:424` refuses to remove a folder with sons, but looks for sons in one query and removes in a later transaction, so a folder that receives a video in between is removed (`OnlyLeavesAreRemoved`) |

Other disagreements met while modelling, each a consequence of the same
separation of commands: two requests that find no root each create one, after
which folders of one path exist under both; a video vertex whose edge fails stays
without a folder; the page posts one slice more than there are when the size is a
multiple of the slice size (`SendExtra`), which re-creates the file of a video
that was deleted meanwhile. A get whose video is deleted between its look-up and its
read is answered 500. The properties leave these outcomes open: `RegisteredIsStored` says
nothing of a file that a delete has unlinked, nor, once something failed, of the last
slice, and `DeletedStaysDeleted` nothing of files whose upload posts an extra slice.
`DeletePaths` and `GetPaths` are what clients ask for in a run.

Bounds: at most two uploads, two deletes and one get; two requests at a time
(three requests in all in the concurrent runs); up to two slices and the extra
one; paths of one or two names; one failed command and one crash. They are enough
for the cases the properties tell apart: two actors on the same father, name,
vertex or file; a failure in each step; a folder inside a folder, which is what
makes a stale father possible. `SYMMETRY` exchanges uploads among themselves and
deletes among themselves; nothing in the module distinguishes them.

Fairness: `FairSpec` has weak fairness on the steps of each handler that has
started: its thread runs and each of its steps is one bounded call. No request
has to arrive, and a crash or failure never has to happen.

### Proofs

`VideoStorageProofs.tla` proves, for any number of requests, folders, slices,
failures and crashes:

- `TypeCorrect`: `Spec => []TypeOK`. `TypeOK` is not inductive: a step that takes
  the head of the names left to walk needs that there is one, and a client that
  sends needs a slice left. `TypeInv` adds both (`Walking`, `Sending`).
- `GraphIsForest`: `Spec => []Forest`. The inductive invariant adds `FreshSons`:
  a vertex that a request has made and not linked yet has no father, and no two
  requests are about to link the same one. The argument: a request links only the
  vertex it made, once; the command that removes a vertex takes its edges along.
  `Pending` says when a handler is between the two commands. It holds across
  failed commands because a handler never repeats a failed edge.

- `NamesLeadDownwards`: `Spec => []Acyclic`. `Acyclic` says that no nonempty set of
  vertices has a father of everyone in it, which for a finite graph is the absence
  of cycles and needs no recursion. The inductive invariant (`CycleInv`) ranks the
  vertices so that every edge, and every edge about to be made, leads from a lower
  to a higher rank. A directory gets its father right after it was made, so it can
  be ranked above everything. A video is attached to a folder that is looked up
  after the video was made and may be younger than it; but until then a video has
  no sons and no request has found it (`YoungVideos`), so it is ranked anew when it
  is attached.

`VideoFilesProofs.tla` proves, as widely, what is said of files and answers:

- `RegisteredCanBePlayed`: `Spec => []RegisteredIsStored`;
- `DeletesAreFinal`: `Spec => []DeletedStaysDeleted`;
- `AcknowledgedStaysAttached`: `Spec => []AcknowledgedIsAttached`.

They share the inductive invariant `FilesInv`. A file is unlinked by a delete, and
appended to by an upload; that the two never meet, but for the extra slice of an
upload, is a matter of order: the client sends a slice only when the one before has
been answered (`InOrder`), a vertex has the name of a file only when all of it has been
sent, and a delete knows a file only from a vertex (`KnownFiles`); after that the
file is whole until a delete that holds its name has gone past the unlinking
(`FilesKept`, `Deleting`). An upload answers 201 with the edge just made, and an edge
only goes when one of its vertices does (`Attaching`).

`VideoTreeProofs.tla` proves `RequestsKeepOneTree`: `Spec => []OneTree` for any
number of requests, folders and names, under two hypotheses, which the run
`VideoStorage_serial` meets:

- `OneAtATime`: one request at a time, no failure, no crash. With two requests there
  can be two roots, and a failed edge leaves a video without a folder (see Runs).
- `NamesApart`: no video is named like a folder. The code does not see to it. A video
  uploaded as `d` into `o` is a son of the name `d`, and `createFolderTree` takes it
  for the folder `o/d` of a later upload; as the content query selects directories,
  a delete then finds the video empty and removes it from above the other.
  With `VideoNames <- FolderNameVideo` in that run TLC finds these 35 steps.

`OneTree` speaks of the moments when no request is served; the inductive invariant
`TreeInv` has to say what is so in between. The tree is whole but for the one vertex
that is made and not linked (`WholeTree(Hanging)`), and each step of a handler knows
something of it (`Work`): a root or a folder is made only where there is none
(`Building`), a delete holds a vertex that has a father and, once looked at, no sons
(`Removing`). The hard part is an upload: its video has no folder until the second
walk down the path ends, so this walk must not fail. The upload remembers no folder of
the first walk; the invariant does, as a function `w` from the names of the path to
vertices (`Way`). The walk that makes the folders extends it by a name at a time
(`Going`, `WayOn`), and the second walk meets the same vertices, because names are
unambiguous among the folders of a folder and no video has their names (`Returning`,
`NextFolder`).

The proofs of this section assume `Requests` and `Inputs`, which TLC evaluates in every
run: the kinds of requests are disjoint, paths are non-empty sequences of names.

Only model-checked: `Answered` (liveness, out of the prover's reach).

### Not modelled here

The byte arithmetic (section 7); the token checks in front of the handlers
(section 6); the connections (section 9); `VideoResources` and
`DirectoryResources`, which no router attaches.

## 4. PolicyStorage

### Correspondence

As in `VideoStorage`, one action per query or command of a handler; `loc[r]` holds
the locals: `want` which lookup is under way, `todo` the names left, `father`,
`old` and `node` the vertices found or made, `version` the number to store.

| Code | Actions |
|---|---|
| `Dispatcher.saveElement` (`Dispatcher:143-236`) | `Start`, `StartWithoutBody`, `CheckName` |
| `getLastNodeFromRelativePath`, `getRoot`, `createRoot` (`DBPolicyConnection:186-252`, `:690-746`) | `GetRoot`, `CreateRoot`, `FindSon` |
| `savePolicy`, `saveFolder` (`DBPolicyConnection:514-657`) | `CheckName`, `CreateNode`, `LinkNode` |
| `updatePolicy` (`DBPolicyConnection:75-178`) | `ReadOld`, `CreateNode`, `LinkNode`, `UnlinkOld`, `RelinkOld` |
| `Dispatcher.getElement` (`Dispatcher:56-126`) | `ReadClass`, `ReadContent`, `ReadValue` |

A policy is never changed or deleted: an update stores a new vertex, links it into
the folder, takes the edge from the folder to the old one away, and links the old
one behind the new. The text of a policy is named by the request that brought it.

`PolicyBook` is the promise to a client that has the service for itself: policies
with their whole history, to which an update appends. `Book` in `PolicyStorage`
is the refinement mapping: the entries are the policies linked to a folder (while
an update is between its commands, still the old one), the history is the chain
of vertices behind each.

### Runs

| Run | What it shows |
|---|---|
| `PolicyStorage_serial` | two creations, two updates, a folder and a get, one at a time, from an empty database: the service implements the book (`KeepsBook`) |
| `PolicyStorage_concurrent` | a creation and two updates at a time, a failed command and a crash: versions descend by one along every chain (`VersionsDescend`), what was answered 201 is found (`AcknowledgedIsKept`), a name that is listed stays listed (`NamesStayListed`), every request is answered (`Answered`) |

What the properties had to concede, and a reader should know: `isValid` and the
creation are separate commands and an update is not checked at all, so a folder
may end up with two policies of one name; two updates of one policy give two
versions of the same number, both with the old one behind them; an update that
fails between `UnlinkOld` and `RelinkOld` loses the old version and everything
behind it, and the client gets a 500 (the last disjunct of `AcknowledgedIsKept`);
an update that names a folder as the policy it replaces is refused but leaves a
new policy behind (`Stray` of the book).

Bounds: three requests at a time on two names; one fault and one crash; one
folder. Every hazard is two updates, or an update and a creation, of one name.
Gets change nothing, so the concurrent run has none. Names `p` and `P` of the serial run differ
in case only, which is what `isValid` compares.

Fairness: weak fairness on each handler that has started, as for `VideoStorage`.

### Proofs

`PolicyStorageProofs.tla` proves, for any number of requests, names, failures and
crashes:

- `PolicyTypeCorrect`: `Spec => []TypeOK`. Inductive with `Walking` (which request can
  be where, with what left to look up) and `Holding` (what an update found has the
  name it asked for, and what a save stored is what it asked to store).
- `VersionsAlwaysDescend`: `Spec => []VersionsDescend`. An update reads a number, adds
  one and stores it in three connections; but a vertex is never changed, so the
  number still belongs to the vertex that `relink` puts behind (`VersionInv`, with
  `Holding`).
- `NamesAreNeverLost`: `Spec => NamesStayListed`, an action property. Before an update
  unlinks the old policy its folder lists the name in a version at least its own
  (`LinkInv`). Several updates that replace the same policy each unlink it and each keep
  their own; one that replaces another's leaves a higher version behind.
- `AcknowledgedPoliciesAreKept`: `Spec => []AcknowledgedIsKept`. The invariant
  (`KeptInv`) reads off the graph instead of following one request: from the folders
  and from the policies cut off by updates that were not answered 201, one reaches
  every policy that is acknowledged or is linked by an update still at work. When an
  update unlinks the old policy this stays true, because the old one itself is then
  counted as cut off, until `relink` puts it behind the new one, which is reachable.

They assume `Requests` and `Inputs`, which TLC evaluates in every run. Reachability
(`Below`) is the least set closed under the edges, not a recursive function, so that it
can be reasoned about without induction.

`ServiceKeepsTheBook` proves the refinement, `Spec => KeepsBook`: every step of the
service is a step of `PolicyBook` or leaves the book as it is. It holds for any
requests, names and folders stored at the start, under two hypotheses, both
met by the run `PolicyStorage_serial`:

- `OneAtATime`: one request at a time, no failure, no crash. The book is the promise to
  such a client; with two, a name is taken twice.
- `FoldersApart`: no request gives a policy or a folder a name that occurs in the
  folder paths of requests. So requests work in the folders stored at the start; a
  folder made later is in the book, and nothing is put into it. The code does not see
  to it: `updatePolicy` never calls `isValid`, so an update may rename a policy to the
  name of the folder beside it, and a path through that folder may then lead to the
  policy. With `Names` the set of `p` and the name of a folder under the root, TLC finds
  such a run.

The argument has four parts.

- What hangs where (`SerialInv`, inductive with `TypeInv` and `BookInv`). The root and
  the folders stored at the start form a stem (`StemInv`); an edge leads from a folder
  of the stem to a later vertex or from a policy to an earlier one, no vertex has two
  fathers and no policy two sons (`EdgesInv`); a version is in the graph once
  (`StoredInv`); of the folders only one that is about to be linked hangs nowhere
  (`RootsInv`). `LookupInv` and `StoringInv` say what the one request at work
  knows. An update looks up the folder first, and then the policy from the root
  again; that the second lookup passes through the same folder is arithmetic: the vertex
  it has reached plus the names it has left is a constant (`Down`).
- `PathOf` and `History` exist. They are recursive functions, of which their equations
  hold only if a function with these equations exists. The edges lower a rank of the
  vertices (`PathsAreDefined`, `HistoriesAreDefined`), and `FollowersExist` shows that a
  function that looks at elements of lower rank only does exist: if not, there is a
  least rank up to which none does. The induction is thus a choice of a least number
  (`LeastNumber`, from `WFMin` and `NatLessThanWellFounded`), which needs no operator as a
  parameter.
- The book in closed form. The path of a folder of the stem is a beginning of `Stored`
  (`PathsOfStem`), that of anything else is one name longer (`PathsOfOthers`), so the
  folders and the entries of the book can be read off the edges (`FoldersShown`,
  `EntriesShown`).
- One lemma for each action, `StartShows` to `RelinkOldShows`. Linking the new policy changes
  nothing while its update is at work, unlinking the old one neither, and `RelinkOld` is
  the step where the entry of the old policy becomes that of the new one, with the
  old history behind it (`EntryReplaced`, `HistoriesStay`).

Only model-checked: `Answered` (liveness).

## 5. SharedSecret

### Correspondence

A client of `SharedSecret.tla` is one click in one tab: `Protects` encrypt a file
for an upload, `Recovers` decrypt a downloaded one. `page[c]` is where the click
is, `served[c]` where the servlet is with the client's current request. The secret
of a handshake is named by the client that began it, since every handshake has new
key pairs on both sides; a protected key is that secret.

| Code | Actions |
|---|---|
| `generateKey`, `decryptKey` and the first half of `getSharedSecret` (`FileProtectorCPABE-AES.js:34-83`, `:170-178`, `AbeProxyInterface.js:268-294`) | `Protect`, `Recover` |
| `getSharedSecret` once the proxy's public key has come (`AbeProxyInterface.js:295-342`) | `Derive` |
| the answer of the second request, the errors of both (`AbeProxyInterface.js:244-251`, `workerAjaxAbeClient.js:34-63`) | `Finish`, `Rejected`, `Disconnect` |
| `Generate_Shared_Secret.doPost` | `Generate` |
| `Cpabe_Information.doPost`, `Get_Shared_Secret.doPost` | `Verify` (getAttribute, tag, decryption), `Forget` (removeAttribute), then `Save` or `Fetch` |
| restart of the container | `Restart`: the servlet context is empty, requests being served end |

The context has one attribute per device, and the name of the device
(`DeviceId`) is `"ABE-Service_"` followed by the user's name and the operation,
`"decryption"` or nothing: two tabs of one user that both upload share it.

`Unshared` stands for a secret no page has: the null key left by a point that does
not decode (`Elliptic_Curve_Diffie_Hellman:59`). A fault is any of: a failing
call in a servlet, a database answer that does not come (the record may have been
written), a broken connection, a point the page cannot import.

`KeyVault.tla` is what the pages rely on: a key is kept before its file is used,
and a file is opened with its own key. `Vault` in `SharedSecret` instantiates it:
a key is kept when it is wrapped as what it is, a file used when the page has gone
on to encrypt, opened when the page of a download has its key.

### Runs

| Run | What it shows |
|---|---|
| `SharedSecret_tabs` | three tabs of `bob` (two uploads, a download) and a download of `alice`, whose personal key does not satisfy the policies: the servlets implement the vault (`IsVault`), a spent secret is gone (`SpentIsForgotten`), a click fails only for a reason (`Undisturbed`), every click ends (`ClickEnds`) |

`Generate_Shared_Secret:100` asks for a unique name per device, but the name the
page builds is the same for two uploads of one user, so a secret may be replaced
before it is used. `IsVault` and `Undisturbed` say what that costs: the first
click is refused, never served with the wrong key.

Bounds: two protecting and two recovering clients, one fault, one restart. Every
hazard of the handshake involves one attribute, so two clients on one name and one
on another name exhaust the ways they can meet; a third of the same name only
repeats what the second does. The run has the database as key storage, which has
one outcome more than the embedded one (stored, yet answered with an error).

Fairness: weak fairness for the steps of a servlet that has its request
(`Serving`: the container's threads run, and no call there waits for another client) and
for a page that has its answer (`Paging`: the event loop runs). Clicks, faults,
broken connections and restarts may or may not happen.
The run sets `CHECK_DEADLOCK FALSE` because clicks are finite.

### Proofs

`SharedSecretProofs.tla` proves, for any clients, users, storage, faults and
restarts:

- `SecretTypeCorrect`: `Spec => []TypeOK`;
- `SpentSecretsAreForgotten`: `Spec => []SpentIsForgotten`;
- `ImplementsVault`: `Spec => IsVault`, that is, `Spec => Vault!Spec`;
- `ClicksAreUndisturbed`: `Spec => []Undisturbed`, if no user has the name of another
  with "decryption" behind it (`NamesApart`): the page puts user and operation together
  without a separator, so an upload of `bobdecryption` and a download of `bob` do share
  a device name, and may disturb each other.

The first three rest on one inductive invariant, `SecretInv`. Neither property is
inductive: that a key is opened as itself depends on which secret the servlet
verified the request with, which depends on what may still be in the context. Its
parts, in the order of that argument: `InStep` (page and servlet of a client are at
matching places, and a page may have given up), `InContext` (a secret is in the
context only under its own device, from the handshake to the request that
spends it), `HeldIsOwn` (a servlet past `Verify` holds its own client's secret,
because of the tag), `KeyIsOwn` (a wrapped key is the client's) and
`FetchedIsWanted` (what is unwrapped is the key of the file asked for). For the
refinement every step of the detailed specification is a step of the vault or
leaves `kept`, `used` and `opened` alone.

They assume `ClientKinds`, evaluated in the run: protecting and recovering
clients are disjoint, and `NoSecret` and `Unshared` are no clients.

`ClicksAreUndisturbed` adds `CourseInv`: a click that nothing exposes to failure has its
secret in the context from the handshake until its request has been verified.

Only model-checked: `ClickEnds` (liveness).

### Not modelled here

CP-ABE, AES and WebCrypto but for their outcomes; user names outside ASCII, whose
conversion depends on the platform's character set; several clicks in one page,
which `blockUI` prevents, so that the variables shared by the callbacks of a page
belong to one handshake.

## 6. TokenSession

### Correspondence

One user, several tabs. A click is one thing the user does in a tab; `pc[c]` is the
step of its request that is served next, `loc[c]` what page and handlers know of
it. `row` is the user's row in the H2 table; a session is named by the click that
opened it and stands for its secret, challenge and certificate. `dead` and
`closed` are history: the sessions that were over when a click began.

| Code | Actions |
|---|---|
| the login page (`index.html:239-336`) | `EnterName`, `GiveUp` (ten seconds), `Login` |
| reload and revisit of the main page (`NaiveAuthenticator:47-123`) | `Reload`, `Visit` |
| `getUserSecret` (`UserDataResourceImpl:88-165`) and `insertUser` | `Search`, `CheckRow`, `DeleteRow`, `Recheck`, `Insert` |
| `login` (`LoginResourceJson:79-172`) | `CheckLogin`, `SelectRow`, `Certify` |
| `generateToken`, `generateRequestToken` | `Operate`, `SelectUser`, `Issue` |
| the proxy's `filter` and the services' `verify` | `Forward`, `Verify` |
| `logout` (`LogoutResource:20-64`) | `Logout`, `DeleteUser` |
| the page's error handlers | `Refused`, `Lost`, `LogoutUser` |
| restart (H2 is in memory), time | `Restart`, `Tick` |

### Runs

| Run | What it shows |
|---|---|
| `TokenSession_tabs` | three clicks in two tabs, one tab logged in, deadlines, a failing call, a restart: a session that is over when a click begins never serves it (`EndedIsFinal`), a refusal has a reason (`RefusedForAReason`), and of tabs that replace each other's session one is in at the end (`SomeoneIsIn`) |
| `TokenSession_kept` | violation: when `requestToken` brings no token, the page goes on with the one an earlier click left in `sessionStorage` (`utilsVideo.js:265`), and the earlier action is carried out again, where `downloadVideo.html:285` means to report an error (`CarriedAsAsked`) |

`SelectUser`, `Issue`, `Forward` and `Verify` each read what they need once: a
logout in between is not noticed by a click that had begun before, which is why
`EndedIsFinal` speaks of the beginning of a click.

Bounds: three clicks (two that replace each other's sessions and a third that uses
one, or a login between two operations), two tabs, lifetimes of one tick with two
ticks, so that a session and a token can each expire between any two steps; one
fault, one restart. Clicks are symmetric. `CHECK_DEADLOCK FALSE`: clicks are
finite.

No liveness is checked: a request may leave the page blocked (outcome `stuck`,
`utilsToken.js:56`), and nothing promises otherwise.

### Proofs

`TokenSessionProofs.tla` proves, for any tabs, clicks, actions and lifetimes, and
any number of ticks, failures and restarts:

- `SessionTypeCorrect`: `Spec => []TypeOK`, which includes that a page that asks
  for tokens has a secret and one that asks for the password has a challenge;
- `EndedSessionsStayEnded`: `Spec => []EndedIsFinal`;
- `SomeoneHasASession`: `Spec => []SomeoneIsIn`;
- `RefusalsHaveReasons`: `Spec => []RefusedForAReason`.

They rest on the inductive invariant `SessionInv`. `EndedIsFinal` is not inductive:
what a click is answered depends on what its handler accepted several steps
before, and on which session the page asked with. Its parts, in the order of the
argument: `InStep` (a click takes the steps of its kind), `OneAtATime` (a tab waits
for one click, so a late answer changes no page another click is in), `Entering`
(so a page that becomes the main page has a secret), `Known` and `RowIsOpen` (pages
and table only hold sessions whose opening has been answered, so a session in the
table was never closed and its deadline is never set again), `DeadIsOver` (what was
over when a click began is over), hence `Accepted` (what `SelectRow` or
`SelectUser` lets pass was not over) and `Granting` (a token named by a click was
made for it after that). The steps are first summed up: every action of a click is
a `Starts`, a `GivesUp` or a `Step` (`NextSorts`), and the parts are shown to be
preserved by those. TLC checked `SessionInv` as an invariant of
`TokenSession_tabs` first. `SomeoneIsIn` is shown beside it, from the actions.

They assume `SessionNames` (the first session is no click, and no session is one
of them) and `Choices` (there is a tab; actions and lifetimes are of their kinds),
both evaluated in the runs.

`RefusalsHaveReasons` adds `ReasonInv`: as long as no reason has come up, at most one
session is opened, the page or click that goes by it finds it in the table
(`RowKept`), the click that opens it finds the table empty (`NoneMet`), and a token that
was asked for is there (`HasToken`).

Nothing of this module is left to model checking alone.

### Not modelled here

Registration (one LDAP entry per request); the time zone in which a deadline is
parsed (`UserForH2:35`), which shortens or lengthens a session by the server's
offset from UTC; signatures and keys, taken to work.

## 7. SliceTransfer

### Correspondence

Bytes are modelled by where they come from: byte `i` of video `v`, or byte `i` of the
ciphertext of its slice `k`. `Half` is the largest int plus one, so that overflow
happens within a few slices.

| Code | Actions and operators |
|---|---|
| the upload loop (`uploadVideo.html:239-311`) | `Choose`, `ReadNextSlice`, `SliceLength`, `Post`, `PostTorn`, `PostLost` |
| append and registration, `sizeFileEnc` (`NodeResources:84-154`) | `Store`, `Register`, `NewRow` |
| `deleteElement` | `DeleteVideo` |
| `getElement`'s ranges (`NodeResources:276-288`) | `Cut` |
| the download loop (`downloadVideo.html:47-175`) | `Click`, `Request`, `RequestFails`, `NextSlice` |
| `requestToken`, `executeService` (`utilsToken.js:9-93`) | `RequestLost` |
| `FileUtilsGenericBrowser`, `FileUtilsChrome` | `Write`, `WriteChrome`, `WriteChromeFails` |

### Run

`SliceTransfer_download`: two videos of the same file name, uploaded, deleted and
downloaded by two Chrome tabs and another browser. What is saved is the video byte
for byte (`SavesTheVideo`); a download of a video that is there fails only after
a failure or an int overflow (`FailsForAReason`), also while the upload is still
posting its extra slice; and every download gives the page back, unless a failure
hits it (`DownloadsEnd`).

Not every failure gives the page back, and the model says which end each may have
(`Fail`). Without a token `executeService` throws; a token that cannot be decrypted, or
that allows nothing, it drops (`utilsToken.js:54-71`); Chrome's `errorHandler` only
writes to the log: the page stays `blocked`. A status 401 leaves it for the login page
(`left`). An error of the storage, the proxy, the key, the decryption or the file
writer ends in `failed`, and the page is ready again. `DownloadsEnd` therefore speaks of
a download during which `faults` does not grow: whatever was posted torn, deleted or
cut short before or meanwhile, it ends in `saved` or `failed`. That an error answer
is not taken for a slice (the page reads its fields before it looks at `code`) rests
on the proxy, which turns every status of the storage into one of its own.

Bounds: slices of 5 bytes, blocks of 2; sizes 0 (no slice), 5 (one full slice, and
the extra one), 8 (two slices) and 11 (three slices, the last of which is beyond
int, `Half = 16`) for one video, 5 and 8 for the other: the boundary cases of
`numSlice`, of padding and of `Cut`. Two downloads, one failure.

Fairness: a request is answered or fails, and the browser runs the callback of a
write (`WF` per tab). No click has to happen.

`SavesTheVideo` makes one exception: in Chrome two tabs that download files of one
name share the temporary file and may both save a mixture. A video of no bytes is
announced as uploaded and never registered.

### Proofs

`SliceTransferProofs.tla` proves, for every size of videos, slices, cipher blocks and
ints, and any number of uploads, tabs and failures:

- `DownloadsSaveTheVideo`: `Spec => []SavesTheVideo`;
- `DownloadsFailForReasons`: `Spec => []FailsForAReason`.

The server computes where a slice begins from an average over the file's length, all
in `int`, so the value may be anything once slices are missing, torn or too many. That
a download is never wrong has this argument (`TransferInv`). The average cannot
exceed the length of a full encrypted slice, also after wrapping (`Average`, `ToIntTwice`).
If it equals that length, every slice begins where it is looked for (`Averaged`,
`Aligned`). If it is smaller, slice 0 is cut too short, and a slice that is not cut out
whole cannot be decrypted (`RightSlice`): the download fails before anything is
saved. So a page that has got past slice 0 is asking for slices at the right places
(`Asking`), and what it has written is a prefix of the video (`Written`). For the second
theorem the row of an upload without failures is right, unless the encrypted
length does not fit into an int (`Whole`), and then every request works
(`RequestWorks`). The row is written once, by the last slice (`RowInv`).

They assume `Bounds`, which TLC evaluates in the run. The non-linear arithmetic
(products, quotients, wrapping) is in lemmas of its own, stated for all integers.

Only model-checked: `DownloadsEnd` (liveness).

## 8. AccessTree

### Correspondence

`Words` and `Convert` are the block generators and `convert` of `createPolicy.html`;
`ParsePolicyPostfix`, `FillPolicy`, `CheckSatisfy`, `PickSatisfyMinLeaves` and
`DecNodeFlatten` are the methods of `Bswabe` of these names; `SerializePolicy` and
`UnserializePolicy` those of `SerializeUtils`. FTI_Video_Service has a copy of both
classes, the same but for layout, with which it encrypts and decrypts. `Save`, `Encrypt`, `Keygen` and
`Decrypt` chain them. A group element is its exponent modulo the prime `P`, and
the pairing a product: the equations of the scheme hold or fail exactly as they do
in the groups, and coincidences of a small prime are avoided by the chosen values.

### Run

`AccessTree_policies`, about five hundred drawings up to three blocks deep: a key
opens a ciphertext exactly if its attributes meet the drawing, or have the role
the page adds, and yields the message (`OpensForItsFormula`, against the recursive
definition `Meets`); a saved policy is unusable only for the two known reasons, a
condition block around a single block, refused as an identity operator, and an
attribute that contains "of", taken for a gate (`UnusableForAReason`);
decryption pairs the fewest leaves possible (`UsesFewestLeaves`, against `Fewest`).

Bounds: two attributes with equal hashes and one odd one; up to three children;
coefficients 0 and 1 and two blinds: enough for every gate to be of each
threshold, satisfied and not, and for an interpolation over non-adjacent children.

The module is recursive, so nothing is proved about it. Not modelled: the set-up
files of `CpabeManager` (written one after the other: a crash in between makes both
anew), the LDAP query, the AES part, and `delegate`, which nothing calls. An
attribute word without a colon ends the service (`KeygenExits`, `LangPolicy:23`).

## 9. OrientConnections

### Correspondence

| Code | Actions |
|---|---|
| `DBConnection.getInstance` (`:58-69`) | `Fetch`, `Make`, `Receive` (the receiver of `setDbManager`), `SetManager`, `SetPath` |
| `ImplementationLoader.getInstance` | `FindLoaded`, `Load`, `FindManager` |
| `OrientDBManager.connect` (`:31-47`) | `Assign` (the shared field), `Verify`, `Put` |
| `executeQuery`, `deleteElement` | `Execute` |
| `commit`, `rollback`, `disconnect` | `Commit`, `Rollback`, `Disconnect` |

A factory, a manager or a singleton is named by the call that made it. The library
is not in the repository: what `getTx` gives for a factory that was closed is left
open (a failure, or a connection of its own), and of two unsynchronised writers of
the `HashMap` one may be lost. Random numbers are taken to be distinct.

### Run

`OrientConnections_start`: the first query, removal and update of a service, two at
a time, with two failures of the database. `disturbed` collects the calls that overlapped
another one where they share a variable (the singleton while it is built, the
field between `Assign` and `Put`, the table); `failedAt` the steps of a call at which
the database failed it. For all calls but the disturbed ones, whatever those do:

- the number stands for a factory of their own that is open (`OwnConnection`);
- a call fails only if the database failed that very call, and never takes a removal
  for committed that is not (`CallFailsForAReason`);
- a call gives back its factory and its number (`GivenBack`), also one whose query,
  removal or commit has failed. Then the error handler calls `rollback` and, after it,
  `disconnect`. Both ask the same factory for a transaction again
  (`OrientDBManager:175`, `:144`), and an exception of either leaves factory and number
  behind. These are the exceptions `GivenBack` makes, with one more: the first query of
  `updatePolicy`, whose error handler throws by itself (`DBPolicyConnection:97`). So no
  single failure loses a connection but that one.

So `VideoStorage` and `PolicyStorage`, which give every
query a connection of its own, are faithful for requests that do not meet there;
two that do may see failures of the kind those modules already allow, or a
removal that is reported and not made. What they leave out is the second failure: a
clean-up that throws ends the request at that query, answered 500, where those modules
let it go on with an empty answer.

Bounds: one call of each kind, two at a time: each place is shared by two. Two
failures: one of a call, and one of its clean-up or of the other call.
`CHECK_DEADLOCK FALSE`: calls are finite.

Not modelled: a `HashMap.get` that meets another call's `put` while this enlarges the
table, which takes a dozen connections at a time.

### Proofs

`OrientConnectionsProofs.tla` proves, for any number of calls at a time and of
failures:

- `ConnectionsAreOwn`: `Spec => []OwnConnection`;
- `FailuresHaveReasons`: `Spec => []CallFailsForAReason`;
- `ConnectionsAreGivenBack`: `Spec => []GivenBack`.

They share the inductive invariant `ConnInv`. A call that nobody has overlapped is alone
while it builds the singleton, and afterwards the singleton is final (`Built`,
`Complete`, `AloneOrFinal`). From the assignment of its factory to the field until the table has
it, no other call is between these two steps, so the field still holds it
(`FieldInv`), it gets its number and no other (`TableInv`), and what it opened and removed
stays its own until `disconnect` (`OpenInv`, `PendingInv`). A call that has failed has its
step in `failedAt`, whose entries nothing removes. They assume `Names`, which TLC
evaluates in the run.

## 10. Not modelled

- Registration, the trees, forms and dialogs of the pages, the proxies of
  FTI_Video_Service that forward one request without a decision, and the upload of
  personal files for analysis: one request each, nothing shared.
- The set-up files of the key authority; cryptography beyond the exponents of
  section 8.
- `VideoResources`, `DirectoryResources`, `FileManager`, `PublishingService`,
  `utilsPolicyOld.js`: not reached by any router or page.
- Vendored libraries.
