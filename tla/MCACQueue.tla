----------------------------- MODULE MCACQueue -----------------------------
(* ACQueue for TLC: a ring of three slots and 4-bit indexes. *)
EXTENDS ACQueue

CONSTANTS w1, w2, o1, o2, x, y
=============================================================================
