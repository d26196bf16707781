---------------------------- MODULE MCDescriptors ----------------------------
(***************************************************************************)
(* A server, two connections, a client of up to three addresses, a watcher *)
(* and two children, of which a run makes any three, on six descriptors    *)
(* and one pid: both children can only live at once when isRunning has     *)
(* reaped the first.                                                       *)
(***************************************************************************)
EXTENDS Descriptors

MCFds == 0..5

=============================================================================
