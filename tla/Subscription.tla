---------------------------- MODULE Subscription ----------------------------
(***************************************************************************)
(* The paid subscription of an account: POST /api/subscribe, PATCH and POST *)
(* /api/account and the gate in front of an account's hunt cycle.           *)
(*                                                                          *)
(* An account is ONE row of the store.  Every handler loads the whole row,  *)
(* awaits something else (the chain, a DNS lookup), changes the fields it   *)
(* cares about in its own copy and writes the whole copy back.  Each await  *)
(* is a step here, so handlers of the same account interleave, and the      *)
(* operator may change the prices and the chain may mine in between.        *)
(* rpcUrl is left out: it is a second field PATCH treats like autoMint.     *)
(***************************************************************************)
EXTENDS Integers, FiniteSets

CONSTANTS
    Accounts, Requests,   \* Requests: handlers that can run at the same time
    Payments,             \* transaction hashes
    NoPayment,            \* the txHash of an account that never subscribed
    Tx,                   \* [from, to, value] of each payment
    Billings,             \* the settings an operator may put in force
    Period,               \* SUBSCRIPTION_DAYS, in ticks
    MaxTime,              \* bound on the model's clock
    MaxUntil              \* bound on the paid time a request still asks to extend

ASSUME SubscriptionAssumption ==
    /\ Accounts # {} /\ Billings # {}
    /\ NoPayment \notin Payments
    /\ IsFiniteSet(Payments)
    /\ \A p \in Payments : Tx[p].value \in Nat
    /\ \A b \in Billings : b.enabled \in BOOLEAN /\ b.price \in Nat
    /\ Period \in Nat \ {0} /\ MaxTime \in Nat /\ MaxUntil \in Nat

VARIABLES
    now,         \* Date.now()
    billing,     \* what loadBilling would return
    chain,       \* where each payment stands on the chain
    row,         \* the accounts namespace of the store
    req,         \* the locals of each running handler
    applied      \* payments an account was thanked for (not program state)

vars == <<now, billing, chain, row, req, applied>>

Rows == [exists : BOOLEAN, autoMint : BOOLEAN, txHash : Payments \cup {NoPayment}, until : Nat]
NoRow == [exists |-> FALSE, autoMint |-> FALSE, txHash |-> NoPayment, until |-> 0]
NewRow == [NoRow EXCEPT !.exists = TRUE, !.autoMint = TRUE]

Steps == {"idle", "loadBilling", "loadAccount", "lookup", "receipt",
          "patchLoad", "patchHost", "save", "huntLoad", "huntGate", "cycle"}
Reqs == [step : Steps, account : Accounts, pay : Payments \cup {NoPayment},
         bill : Billings, copy : Rows]
Idle == [step |-> "idle", account |-> CHOOSE a \in Accounts : TRUE, pay |-> NoPayment,
         bill |-> CHOOSE b \in Billings : TRUE, copy |-> NoRow]

TypeOK ==
    /\ now \in Nat
    /\ billing \in Billings
    /\ chain \in [Payments -> {"unsent", "pending", "failed", "mined"}]
    /\ row \in [Accounts -> Rows]
    /\ req \in [Requests -> Reqs]
    /\ applied \in [Accounts -> SUBSET Payments]

Init ==
    /\ now = 0
    /\ billing \in Billings
    /\ chain = [p \in Payments |-> "unsent"]
    /\ row = [a \in Accounts |-> NoRow]
    /\ req = [r \in Requests |-> Idle]
    /\ applied = [a \in Accounts |-> {}]

----------------------------------------------------------------------------
(* Mutated forms the checks substitute: each is a slip this code could have. *)

ActiveUnpaid(bill, copy) == ~bill.enabled \/ copy.until >= now
NeverApplied(r) == FALSE
SaveSubscriptionOnly(copy, p) ==
    [txHash |-> p, until |-> (IF copy.until > now THEN copy.until ELSE now) + Period]

----------------------------------------------------------------------------
Goto(r, step) == req' = [req EXCEPT ![r] = [@ EXCEPT !.step = step]]
End(r) == req' = [req EXCEPT ![r] = Idle]

(* Any await may throw, and a handler that throws has written nothing. *)
Throw(r) ==
    /\ req[r].step \in {"loadBilling", "loadAccount", "lookup", "receipt",
                        "patchLoad", "patchHost", "huntLoad", "huntGate"}
    /\ End(r)
    /\ UNCHANGED <<now, billing, chain, row, applied>>

(* POST /api/account *)
SignUp(a) ==
    /\ ~row[a].exists
    /\ row' = [row EXCEPT ![a] = NewRow]
    /\ UNCHANGED <<now, billing, chain, req, applied>>

(* A request arrives: to subscribe with a hash, to patch, or to hunt. *)
Arrive(r, a, p) ==
    /\ req[r].step = "idle"
    /\ \E step \in {"loadBilling", "patchLoad", "huntLoad"} :
          /\ step = "loadBilling" => row[a].until <= MaxUntil
          /\ req' = [req EXCEPT ![r] = [@ EXCEPT !.step = step, !.account = a,
                        !.pay = IF step = "loadBilling" THEN p ELSE NoPayment]]
    /\ UNCHANGED <<now, billing, chain, row, applied>>

LoadBilling(r) ==
    /\ req[r].step = "loadBilling"
    /\ req' = [req EXCEPT ![r] = [@ EXCEPT !.step = "loadAccount", !.bill = billing]]
    /\ UNCHANGED <<now, billing, chain, row, applied>>

(* authenticateAccount: the handler goes on with its own copy of the row. *)
Authenticate(r) ==
    /\ row[req[r].account].exists
    /\ \E from \in {"loadAccount", "patchLoad", "huntLoad"} :
          /\ req[r].step = from
          /\ req' = [req EXCEPT ![r] =
                [@ EXCEPT !.copy = row[req[r].account],
                          !.step = CASE from = "loadAccount" -> "lookup"
                                     [] from = "patchLoad" -> "patchHost"
                                     [] from = "huntLoad" -> "huntGate"]]
    /\ UNCHANGED <<now, billing, chain, row, applied>>

(* eth_getTransactionByHash: only a transaction in a block goes on. *)
Lookup(r) ==
    /\ req[r].step = "lookup"
    /\ IF chain[req[r].pay] \in {"mined", "failed"} THEN Goto(r, "receipt") ELSE End(r)
    /\ UNCHANGED <<now, billing, chain, row, applied>>

(* verifyPayment, from the receipt on. *)
GoodPayment(r) ==
    LET q == req[r] IN
    /\ chain[q.pay] = "mined"
    /\ Tx[q.pay].to = q.bill.recipient
    /\ Tx[q.pay].value >= q.bill.price
    /\ Tx[q.pay].from = q.account

(* The replay test: only the newest hash of the copy is remembered. *)
AlreadyApplied(r) == req[r].copy.txHash = req[r].pay

extendSubscription(copy, p) ==
    [copy EXCEPT !.txHash = p, !.until = (IF @ > now THEN @ ELSE now) + Period]

Receipt(r) ==
    /\ req[r].step = "receipt"
    /\ IF GoodPayment(r) /\ ~AlreadyApplied(r)
       THEN req' = [req EXCEPT ![r] = [@ EXCEPT !.step = "save",
                        !.copy = extendSubscription(req[r].copy, req[r].pay)]]
       ELSE End(r)
    /\ UNCHANGED <<now, billing, chain, row, applied>>

(* PATCH once assertPublicHost has answered. *)
PatchFields(r, on) ==
    /\ req[r].step = "patchHost"
    /\ req' = [req EXCEPT ![r] = [@ EXCEPT !.step = "save", !.copy.autoMint = on]]
    /\ UNCHANGED <<now, billing, chain, row, applied>>

(* saveAccount: the whole copy replaces the whole row.  The write may also   *)
(* fail, or land while its answer is lost; the caller then sees an error.    *)
Save(r) ==
    LET q == req[r] IN
    /\ q.step = "save"
    /\ \/ /\ row' = [row EXCEPT ![q.account] = q.copy]
          /\ \/ q.pay # NoPayment /\ applied' = [applied EXCEPT ![q.account] = @ \cup {q.pay}]
             \/ UNCHANGED applied
       \/ UNCHANGED <<row, applied>>
    /\ End(r)
    /\ UNCHANGED <<now, billing, chain>>

(* subscriptionStatus(...).active *)
Active(bill, copy) == ~bill.enabled \/ (copy.txHash # NoPayment /\ copy.until > now)

(* The gate of POST /api/hunt; the cycle it opens runs on with the copy. *)
HuntGate(r) ==
    /\ req[r].step = "huntGate"
    /\ IF req[r].copy.autoMint /\ Active(billing, req[r].copy)
       THEN req' = [req EXCEPT ![r] = [@ EXCEPT !.step = "cycle", !.bill = billing]]
       ELSE End(r)
    /\ UNCHANGED <<now, billing, chain, row, applied>>

CycleEnds(r) ==
    /\ req[r].step = "cycle"
    /\ End(r)
    /\ UNCHANGED <<now, billing, chain, row, applied>>

(* The environment: PATCH /api/billing, the chain and the clock. *)
SetBilling ==
    /\ billing' \in Billings \ {billing}
    /\ UNCHANGED <<now, chain, row, req, applied>>

ChainStep(p) ==
    /\ \/ chain[p] = "unsent" /\ chain' = [chain EXCEPT ![p] = "pending"]
       \/ chain[p] = "pending" /\ \E s \in {"failed", "mined"} : chain' = [chain EXCEPT ![p] = s]
    /\ UNCHANGED <<now, billing, row, req, applied>>

Tick ==
    /\ now < MaxTime
    /\ now' = now + 1
    /\ UNCHANGED <<billing, chain, row, req, applied>>

Handler(r) ==
    \/ \E a \in Accounts, p \in Payments : Arrive(r, a, p)
    \/ LoadBilling(r) \/ Authenticate(r) \/ Lookup(r) \/ Receipt(r)
    \/ \E on \in BOOLEAN : PatchFields(r, on)
    \/ Save(r) \/ HuntGate(r) \/ CycleEnds(r) \/ Throw(r)

Next ==
    \/ \E a \in Accounts : SignUp(a)
    \/ \E r \in Requests : Handler(r)
    \/ SetBilling
    \/ \E p \in Payments : ChainStep(p)
    \/ Tick

Spec == Init /\ [][Next]_vars

----------------------------------------------------------------------------
(* Payments of an account that are mined and were sent from its own wallets. *)
PaidBy(a) == {p \in Payments : chain[p] = "mined" /\ Tx[p].from = a}

(* An account never holds more paid time ahead than the payments it really  *)
(* made, whatever is posted, reposted, repriced or saved from a stale copy. *)
MonthPerPayment ==
    \A a \in Accounts : row[a].until <= now + Period * Cardinality(PaidBy(a))

(* Every payment an account has been thanked for is still worth a period:   *)
(* "paying early adds time instead of throwing away what is left".  The     *)
(* code does not keep it: saveAccount writes back a copy loaded before.     *)
PaidTimeKept ==
    \A a \in Accounts : applied[a] # {} => row[a].until >= Period * Cardinality(applied[a])

(* No cycle runs for an account without a mined payment of its own, unless  *)
(* the billing its gate read was off.                                       *)
NoFreeCycle ==
    \A r \in Requests :
        req[r].step = "cycle" /\ req[r].bill.enabled => PaidBy(req[r].account) # {}

(* The strengthening behind the two.  Paid time, in a row or in the copy of *)
(* a handler, rests on a mined payment of the account; no handler has a     *)
(* copy before it loads one; and a cycle was admitted on a paid copy.       *)
Backed(s, paid) ==
    /\ s.txHash = NoPayment => s.until = 0
    /\ s.txHash # NoPayment => s.txHash \in paid

Sound(q) ==
    /\ Backed(q.copy, PaidBy(q.account))
    /\ q.step \in {"idle", "loadBilling", "loadAccount", "patchLoad", "huntLoad"} => q.copy = NoRow
    /\ q.step \in {"loadBilling", "loadAccount", "lookup", "receipt"} => q.pay \in Payments
    /\ q.step = "cycle" /\ q.bill.enabled => q.copy.txHash # NoPayment

PaidInv ==
    /\ \A a \in Accounts : Backed(row[a], PaidBy(a))
    /\ \A r \in Requests : Sound(req[r])

(* With one payment an account, no row and no copy is ever further ahead    *)
(* than one period.                                                         *)
OnePaymentEach == \A p, q \in Payments : Tx[p].from = Tx[q].from => p = q

MonthInv ==
    /\ \A a \in Accounts : row[a].until <= now + Period
    /\ \A r \in Requests : req[r].copy.until <= now + Period
============================================================================
