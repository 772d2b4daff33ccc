--------------------------- MODULE MCHedgeOrders ---------------------------
(* Instances of HedgeOrders for TLC: see the .cfg files. *)
EXTENDS HedgeInvariant, TLC

\* Client IDs are drawn at random and compared for equality only.
Symmetry == Permutations(Cloids)
=============================================================================
