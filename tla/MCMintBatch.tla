---------------------------- MODULE MCMintBatch ----------------------------
(* Two wallets and up to two collections: two runs on one collection sign   *)
(* the very same transaction, on two collections different ones.            *)
EXTENDS MintBatch, TLC

Symmetry == Permutations(Contracts)
============================================================================
