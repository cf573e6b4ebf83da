--------------------------- MODULE MCSharedSecret ---------------------------
(***************************************************************************)
(* Small instances of SharedSecret for TLC.                                *)
(***************************************************************************)
EXTENDS SharedSecret

CONSTANTS p1, p2, r1, r2

\* Three tabs of one user, and a tab of another.
TwoUsers == [c \in Clients |-> IF c = r2 THEN "alice" ELSE "bob"]
=============================================================================
