--------------------------- MODULE MCWorkerClient ---------------------------
(* Small instance of WorkerClient: a job that keeps the protocol beside one *)
(* that may break it.                                                      *)
EXTENDS WorkerClient
=============================================================================
