--------------------------- MODULE MCChildProcess ---------------------------
(***************************************************************************)
(* Pipes with room for two cells; bodies that are empty, small, piece by   *)
(* piece larger than what a pipe has room for with their length, and       *)
(* larger than the pipe.                                                   *)
(***************************************************************************)
EXTENDS ChildProcess
=============================================================================
