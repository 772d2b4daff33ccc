---------------------------- MODULE MCManualReset ---------------------------
(* The instance of ManualReset for TLC: ResetSwitch.cfg. *)
EXTENDS ManualReset

\* A position, an order, the old parameters and those a switch installs.
CONSTANTS n1, o1, old, dd5
=============================================================================
