------------------------------ MODULE MCSubnet ------------------------------
(* Eight addresses and every block of them as a root.  A long note takes   *)
(* three bytes in every part of a result and a short one a byte, a file of *)
(* JSON is longer than one of CSV, and the budget of 24 bytes has room for *)
(* four leaves, but not for any notes, nor for every file of them.         *)
EXTENDS Subnet

CONSTANTS short, long

NoteBytes(part, leaf) == (IF leaf.note = long THEN 3 ELSE 1) + IF part = "json" THEN 1 ELSE 0
FrameBytes(part, root) == 1
=============================================================================
