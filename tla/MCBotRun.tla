------------------------------ MODULE MCBotRun ------------------------------
(* One wallet with two transactions over two endpoints, one transaction of   *)
(* somebody else in between, a gas limit below and one above the assumed.    *)
EXTENDS BotRun
============================================================================
