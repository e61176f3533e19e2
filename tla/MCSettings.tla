----------------------------- MODULE MCSettings -----------------------------
(* One request for the payout address and one that clears the fee, of one   *)
(* client whose bucket holds a single token; two accounts to move, and in   *)
(* the old settings row a fee edited by hand above the limit.               *)
EXTENDS Migrate, TLC

CONSTANTS a1, a2, recipient, feePct, q1, q2, client

MCBase == recipient :> 1 @@ feePct :> 1
MCInput == q1 :> (recipient :> 2) @@ q2 :> (feePct :> Null)
MCCallerOf == q1 :> client @@ q2 :> client
MCOldSettings == recipient :> Unset @@ feePct :> 3
(* Bound: while two accounts are moved, or the server saves one to a file,  *)
(* no price changes and the clock stands still.                             *)
Quiet == granted[client] = 0 /\ forward = 0 /\ now = 0
Crowd ==
    \/ /\ Cardinality(oldAccounts \cup {a \in Accounts : AccountRow(a) \in backup}) <= 1
       /\ saving = NoSave
    \/ Quiet
Symmetry == Permutations(Accounts)
============================================================================
