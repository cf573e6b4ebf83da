------------------------------ MODULE KeyVault ------------------------------
(***************************************************************************)
(* What the ABE-Proxy promises to the pages: the key of a file is kept     *)
(* before the file is used, and whoever opens the file later gets exactly  *)
(* the key it was encrypted with.                                          *)
(***************************************************************************)
CONSTANTS
  Files,      \* files, each with a key of its own, called like the file
  Readers     \* attempts to open a file

VARIABLES
  kept,       \* files whose key is in the vault
  used,       \* files encrypted with their key
  opened      \* for each reader <<>>, or the file and the key it was given

vars == <<kept, used, opened>>

Init ==
  /\ kept = {}
  /\ used = {}
  /\ opened = [r \in Readers |-> <<>>]

Keep(f) ==
  /\ kept' = kept \cup {f}
  /\ UNCHANGED <<used, opened>>

Use(f) ==
  /\ f \in kept
  /\ used' = used \cup {f}
  /\ UNCHANGED <<kept, opened>>

Open(r) == \E f \in used :
  /\ opened[r] = <<>>
  /\ opened' = [opened EXCEPT ![r] = <<f, f>>]
  /\ UNCHANGED <<kept, used>>

Next ==
  \/ \E f \in Files : Keep(f) \/ Use(f)
  \/ \E r \in Readers : Open(r)

Spec == Init /\ [][Next]_vars
=============================================================================
