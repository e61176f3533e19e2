---------------------------- MODULE MCHuntRounds ----------------------------
(* Two tabs and two accounts over two collections, a shortlist of up to      *)
(* two and a cap of one: some round leaves a passer alone, and the next      *)
(* round of the same account meets it again.                                 *)
EXTENDS HuntRounds, TLC
============================================================================
