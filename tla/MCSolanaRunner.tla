--------------------------- MODULE MCSolanaRunner ---------------------------
(* Two layers, hours as ticks. *)
EXTENDS SolanaRunner, TLC

LayerSymmetry == Permutations(Layers)
=============================================================================
