---------------------------- MODULE MCTaskQueue ----------------------------
(* TaskQueue for TLC: a small ring, where every slot is reused many times. *)
EXTENDS TaskQueue

CONSTANTS p1, p2, c1, c2, x, y
=============================================================================
