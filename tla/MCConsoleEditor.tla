--------------------------- MODULE MCConsoleEditor ---------------------------
(***************************************************************************)
(* Lines that differ in length, a history of two of them, one worker.      *)
(***************************************************************************)
EXTENDS ConsoleEditor
=============================================================================
