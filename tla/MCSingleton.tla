---------------------------- MODULE MCSingleton ----------------------------
(* Singleton for TLC. *)
EXTENDS Singleton

CONSTANTS w1, w2, o1, o2, o3
=============================================================================
