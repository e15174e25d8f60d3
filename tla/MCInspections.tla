--------------------------- MODULE MCInspections ---------------------------
(* A web inspection with two names that may be asked for and one that is   *)
(* denied, or an e-mail inspection of a domain and two more owners, every  *)
(* record of up to two links.                                              *)
EXTENDS Inspections, TLC
CONSTANTS a, b
Symmetry == Permutations({a, b})
=============================================================================
