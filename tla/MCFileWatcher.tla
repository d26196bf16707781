---------------------------- MODULE MCFileWatcher ----------------------------
(***************************************************************************)
(* Two paths and two inodes, so that a path is replaced while watched and  *)
(* two paths name one inode; three watches, a queue of three events and    *)
(* reads of one or two.                                                    *)
(***************************************************************************)
EXTENDS FileWatcher

=============================================================================
