---------------------------- MODULE MCAdmission -----------------------------
(* Small instances of Admission with its history: slots, table, windows.   *)
EXTENDS AdmissionHistory, TLC

Symmetry == Permutations(Requests) \cup Permutations(Sources)
=============================================================================
