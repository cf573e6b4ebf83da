------------------------------ MODULE PolicyBook ------------------------------
(***************************************************************************)
(* What the policies service promises to a client that has it for itself:  *)
(* a book of policies, each with its whole history.  A new policy takes a  *)
(* free name; an update appends a version to the history of one policy and *)
(* may give it another name; nothing ever leaves the book.                 *)
(***************************************************************************)
EXTENDS Naturals, Sequences

CONSTANTS
  Creates, Updates, MakeFolders,   \* the requests; a version is known by its request
  Names, Replaced, Lower,          \* names, and the lower case of each
  Stored                           \* path of the folders that exist at the start

VARIABLES
  folders,     \* paths of the folders
  book,        \* the policies: folder, name and history, oldest version first
  saved,       \* requests answered 201
  conflicts    \* requests answered 409

bookVars == <<folders, book, saved, conflicts>>

Entry(f, x, h) == [folder |-> f, name |-> x, history |-> h]

\* Something in folder f has the name x, in upper or lower case.
InUse(f, x) ==
  \/ \E e \in book : e.folder = f /\ Lower[e.name] = Lower[x]
  \/ \E p \in folders : \E y \in DOMAIN Lower : p = Append(f, y) /\ Lower[y] = Lower[x]

BookInit ==
  /\ folders = {SubSeq(Stored, 1, k) : k \in 0 .. Len(Stored)}
  /\ book = {}
  /\ saved = {}
  /\ conflicts = {}

Create(r, f, x) ==
  /\ ~InUse(f, x)
  /\ book' = book \cup {Entry(f, x, <<r>>)}
  /\ saved' = saved \cup {r}
  /\ UNCHANGED <<folders, conflicts>>

Refuse(r, f, x) ==
  /\ InUse(f, x)
  /\ conflicts' = conflicts \cup {r}
  /\ UNCHANGED <<folders, book, saved>>

MakeFolder(r, f, x) ==
  /\ ~InUse(f, x)
  /\ folders' = folders \cup {Append(f, x)}
  /\ saved' = saved \cup {r}
  /\ UNCHANGED <<book, conflicts>>

\* The policy e is replaced by its next version, now called x.
Update(r, e, x) ==
  /\ book' = (book \ {e}) \cup {Entry(e.folder, x, Append(e.history, r))}
  /\ saved' = saved \cup {r}
  /\ UNCHANGED <<folders, conflicts>>

\* An update that names a folder where it should name a policy is refused, but
\* what it brought is left in the book as a new policy.
Stray(r, f, x) ==
  /\ \E y \in Replaced : Append(f, y) \in folders
  /\ book' = book \cup {Entry(f, x, <<r>>)}
  /\ UNCHANGED <<folders, saved, conflicts>>

BookNext ==
  \/ \E r \in Creates, f \in folders, x \in Names : Create(r, f, x) \/ Refuse(r, f, x)
  \/ \E r \in MakeFolders, f \in folders, x \in Names : MakeFolder(r, f, x)
  \/ \E r \in Updates, e \in book, x \in Names : Update(r, e, x)
  \/ \E r \in Updates, f \in folders, x \in Names : Stray(r, f, x)

BookSpec == BookInit /\ [][BookNext]_bookVars
=============================================================================
