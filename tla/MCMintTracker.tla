--------------------------- MODULE MCMintTracker ---------------------------
(* Two collections and two senders, with thresholds, queue, sample and row   *)
(* limits small enough that a few mints cross each of them.                  *)
EXTENDS MintTracker
============================================================================
