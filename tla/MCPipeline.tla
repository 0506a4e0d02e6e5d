----------------------------- MODULE MCPipeline -----------------------------
(* Pipeline for TLC. *)
EXTENDS Pipeline, TLC

CONSTANTS w1, w2, a1, a2, a3, a4

Symmetry == Permutations(Workers) \cup Permutations(Address)
=============================================================================
