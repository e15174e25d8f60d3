----------------------------- MODULE MCRelease -----------------------------
(* Three releases of two images, and one more change of the API.           *)
EXTENDS Release, TLC
Symmetry == Permutations(Images)
=============================================================================
