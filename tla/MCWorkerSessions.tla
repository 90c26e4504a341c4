--------------------------- MODULE MCWorkerSessions ---------------------------
(* WorkerSessions on two workers. *)
EXTENDS WorkerSessions

CONSTANTS w1, w2
=============================================================================
