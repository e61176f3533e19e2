--------------------------- MODULE MCSubscription ---------------------------
(* Small instances of Subscription: good and bad payments of two accounts,  *)
(* and an operator who changes the price, the payout address, or turns      *)
(* billing off.                                                             *)
EXTENDS Subscription, TLC

CONSTANTS a1, a2, p1, p2

(* p1 pays a1's subscription; p2 was sent by somebody else's wallet. *)
MCTx == p1 :> [from |-> a1, to |-> "us", value |-> 2]
     @@ p2 :> [from |-> a2, to |-> "us", value |-> 2]

(* Two good payments of the same account. *)
MCTxTwo == p1 :> [from |-> a1, to |-> "us", value |-> 2]
        @@ p2 :> [from |-> a1, to |-> "us", value |-> 2]

MCBillings == {[enabled |-> TRUE, recipient |-> "us", price |-> 2],
               [enabled |-> TRUE, recipient |-> "other", price |-> 3],
               [enabled |-> FALSE, recipient |-> "us", price |-> 2]}
MCOneBilling == {[enabled |-> TRUE, recipient |-> "us", price |-> 2]}
============================================================================
