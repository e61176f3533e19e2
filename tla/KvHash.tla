------------------------------- MODULE KvHash -------------------------------
(***************************************************************************)
(* What a namespace of the store promises its callers (the KvHash interface *)
(* of src/kv.ts): a map from keys to JSON values on which every write takes *)
(* effect once, on the whole map at that moment, between its call and its   *)
(* answer, or not at all when it is refused.                                *)
(***************************************************************************)
CONSTANTS
    Keys, Values, NoValue,
    Ops,                  \* the writes callers make, one call each
    Op                    \* [kind, keys, value] of each of them

VARIABLES rows, status

vars == <<rows, status>>

Empty == [k \in Keys |-> NoValue]

(* set(key, value), delete(keys) and clear(). *)
Effect(o, r) ==
    CASE Op[o].kind = "set" -> [k \in Keys |-> IF k \in Op[o].keys THEN Op[o].value ELSE r[k]]
      [] Op[o].kind = "delete" -> [k \in Keys |-> IF k \in Op[o].keys THEN NoValue ELSE r[k]]
      [] OTHER -> Empty

Init == rows = Empty /\ status = [o \in Ops |-> "new"]

Call(o) ==
    /\ status[o] = "new"
    /\ status' = [status EXCEPT ![o] = "pending"]
    /\ UNCHANGED rows

Apply(o) ==
    /\ status[o] = "pending"
    /\ status' = [status EXCEPT ![o] = "applied"]
    /\ rows' = Effect(o, rows)

Return(o) ==
    /\ status[o] = "applied"
    /\ status' = [status EXCEPT ![o] = "done"]
    /\ UNCHANGED rows

Refuse(o) ==
    /\ status[o] = "pending"
    /\ status' = [status EXCEPT ![o] = "failed"]
    /\ UNCHANGED rows

Next == \E o \in Ops : Call(o) \/ Apply(o) \/ Return(o) \/ Refuse(o)

Spec == Init /\ [][Next]_vars
============================================================================
