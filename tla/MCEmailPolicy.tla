--------------------------- MODULE MCEmailPolicy ---------------------------
(* A domain and two more owners, every record of up to two links each.     *)
EXTENDS EmailPolicy, TLC
CONSTANTS a, b
Symmetry == Permutations({a, b})
=============================================================================
