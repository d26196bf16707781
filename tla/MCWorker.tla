------------------------------ MODULE MCWorker ------------------------------
(***************************************************************************)
(* Queues of two messages and more messages than that each way.            *)
(***************************************************************************)
EXTENDS Worker
=============================================================================
