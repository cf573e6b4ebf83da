--------------------------- MODULE MCPolicyStorage ---------------------------
(***************************************************************************)
(* Small instances of PolicyStorage for TLC.                               *)
(***************************************************************************)
EXTENDS PolicyStorage

Empty == <<>>
Organization == <<"o">>
Nested == <<"o", "q">>

LowerCase == [x \in {"root", "o", "p", "P", "q"} |-> IF x = "P" THEN "p" ELSE x]

OneFolder == {<<"o">>}
RootFolder == {<<"root">>}
NestedFolders == {<<"o">>, <<"o", "q">>}
=============================================================================
