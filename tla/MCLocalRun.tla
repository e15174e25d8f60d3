----------------------------- MODULE MCLocalRun -----------------------------
(* A page on which up to three runs are started. *)
EXTENDS LocalRun
=============================================================================
