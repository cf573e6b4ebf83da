--------------------------- MODULE MCVideoStorage ---------------------------
(***************************************************************************)
(* Small instances of VideoStorage for TLC.                                *)
(***************************************************************************)
EXTENDS VideoStorage, TLC

\* What the database holds at the start.
Empty == <<>>
Organization == <<"o">>

\* Folders of uploads.  A video may be called "d", like a folder.
OneFolder == {<<"o">>}
NestedFolders == {<<"o">>, <<"o", "d">>}
OneVideo == {"v"}
FolderNameVideo == {"d"}

\* Paths of deletes and gets.
FolderAndVideo == {<<"o">>, <<"o", "v">>}
VideoPath == {<<"o", "v">>}
FolderPath == {<<"o">>}
NestedPaths == {<<"o", "d">>, <<"o", "d", "v">>}

Alike == Permutations(Uploads) \cup Permutations(Deletes)
=============================================================================
