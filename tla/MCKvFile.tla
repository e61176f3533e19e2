------------------------------ MODULE MCKvFile ------------------------------
(* Two keys and four writes that meet on them: two saves of one row, a      *)
(* delete and a save of another row, or a clear.                            *)
EXTENDS KvFile, TLC

CONSTANTS k1, k2, v1, v2, o1, o2, o3, o4

MCOp == o1 :> [kind |-> "set", keys |-> {k1}, value |-> v1]
     @@ o2 :> [kind |-> "set", keys |-> {k2}, value |-> v2]
     @@ o3 :> [kind |-> "delete", keys |-> {k1}, value |-> v1]
     @@ o4 :> [kind |-> "clear", keys |-> {}, value |-> v1]
============================================================================
