---------------------------- MODULE MCBulletHooks ----------------------------
(***************************************************************************)
(* Four operations allow a test of a bullet whose handler calls an API     *)
(* function that tests another line, whose handler tests a third one.      *)
(***************************************************************************)
EXTENDS BulletHooks

=============================================================================
