---------------------------- MODULE MCAutopilot ----------------------------
(* Four collections, one of them on the denylist, two transactions for each, *)
(* free and paid mints: the hourly cap, the total budget and the budget of a *)
(* collection each stop some run before the others do.                       *)
EXTENDS Autopilot

MCValues == {0, 1}
MCGasLimits == {1, 3}
============================================================================
