---------------------------- MODULE MCEthRunner ----------------------------
(* TLC instances of EthRunner. *)
EXTENDS EthRunner
=============================================================================
