----------------------------- MODULE MCToolPages -----------------------------
(* A page on which up to three calls are made. *)
EXTENDS ToolPages
=============================================================================
