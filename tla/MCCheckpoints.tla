---------------------------- MODULE MCCheckpoints ----------------------------
(* Small instances of Checkpoints.                                         *)
EXTENDS Checkpoints

CONSTANTS save1, save2
=============================================================================
