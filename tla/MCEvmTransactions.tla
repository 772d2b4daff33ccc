-------------------------- MODULE MCEvmTransactions --------------------------
(* The instances of EvmTransactions for TLC: see EvmSafety.cfg and           *)
(* EvmLiveness.cfg.  Hashes are symmetric in the safety run only.            *)
EXTENDS EvmTransactions, TLC

Symmetry == Permutations(Txs)
==============================================================================
