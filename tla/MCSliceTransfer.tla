-------------------------- MODULE MCSliceTransfer --------------------------
(* A small instance of SliceTransfer: two videos of the same file name.     *)
EXTENDS SliceTransfer

SameName == [v \in Videos |-> "holiday.mp4"]
SizesOfVideo == [v \in Videos |-> IF v = "v1" THEN {0, 5, 8, 11} ELSE {5, 8}]
=============================================================================
