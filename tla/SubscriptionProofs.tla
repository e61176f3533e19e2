------------------------- MODULE SubscriptionProofs -------------------------
(* What holds of the subscription for any accounts, payments, settings and  *)
(* number of handlers running at once: type correctness, that no cycle is   *)
(* run for an account that never paid, and that an account with one payment *)
(* never holds more than one period.                                        *)
EXTENDS Subscription, TLAPS, FiniteSetTheorems

(* The blank request record is one of the records a handler may hold. *)
LEMMA IdleType == Idle \in Reqs
<1>1. /\ (CHOOSE a \in Accounts : TRUE) \in Accounts
      /\ (CHOOSE b \in Billings : TRUE) \in Billings
  BY SubscriptionAssumption
<1> QED BY <1>1 DEF Idle, Reqs, Steps, Rows, NoRow

(* extendSubscription keeps a row a row, with a positive expiry after now. *)
LEMMA ExtendType ==
    ASSUME NEW copy \in Rows, NEW p \in Payments \cup {NoPayment}, now \in Nat
    PROVE  /\ extendSubscription(copy, p) \in Rows
           /\ extendSubscription(copy, p).txHash = p
           /\ extendSubscription(copy, p).until =
                (IF copy.until > now THEN copy.until ELSE now) + Period
<1> DEFINE until == (IF copy.until > now THEN copy.until ELSE now) + Period
<1>1. Period \in Nat /\ copy.until \in Nat
  BY SubscriptionAssumption DEF Rows
<1>2. until \in Nat BY <1>1
<1> HIDE DEF until
<1>3. extendSubscription(copy, p) = [copy EXCEPT !.txHash = p, !.until = until]
  BY DEF extendSubscription, until
<1>4. extendSubscription(copy, p) \in Rows
  BY <1>2, <1>3 DEF Rows
<1>5. extendSubscription(copy, p).txHash = p /\ extendSubscription(copy, p).until = until
  BY <1>3 DEF Rows
<1> QED BY <1>4, <1>5 DEF until

(* Moving a request to another step leaves its record well formed. *)
LEMMA StepType ==
    ASSUME TypeOK, NEW r \in Requests, NEW step \in Steps
    PROVE  [req EXCEPT ![r] = [@ EXCEPT !.step = step]] \in [Requests -> Reqs]
<1>1. [req[r] EXCEPT !.step = step] \in Reqs BY DEF TypeOK, Reqs
<1> QED BY <1>1 DEF TypeOK

(* Every handler step writes one well-formed request record. *)
LEMMA HandlerReq ==
    ASSUME TypeOK, NEW r \in Requests, Handler(r)
    PROVE  req' \in [Requests -> Reqs]
<1> USE DEF TypeOK
<1>0. Idle \in Reqs BY IdleType
<1>1. CASE \E a \in Accounts, p \in Payments : Arrive(r, a, p)
  <2>1. PICK a \in Accounts, p \in Payments, step \in {"loadBilling", "patchLoad", "huntLoad"} :
            req' = [req EXCEPT ![r] = [@ EXCEPT !.step = step, !.account = a,
                        !.pay = IF step = "loadBilling" THEN p ELSE NoPayment]]
    BY <1>1 DEF Arrive
  <2> DEFINE pay == IF step = "loadBilling" THEN p ELSE NoPayment
  <2>2. pay \in Payments \cup {NoPayment} /\ step \in Steps BY DEF Steps
  <2> HIDE DEF pay
  <2>3. [req[r] EXCEPT !.step = step, !.account = a, !.pay = pay] \in Reqs
    BY <2>2 DEF Reqs
  <2> QED BY <2>1, <2>3 DEF pay
<1>2. CASE LoadBilling(r)
  BY <1>2 DEF LoadBilling, Reqs, Steps
<1>3. CASE Authenticate(r)
  <2>1. PICK from \in {"loadAccount", "patchLoad", "huntLoad"} :
            req' = [req EXCEPT ![r] =
                [@ EXCEPT !.copy = row[req[r].account],
                          !.step = CASE from = "loadAccount" -> "lookup"
                                     [] from = "patchLoad" -> "patchHost"
                                     [] from = "huntLoad" -> "huntGate"]]
    BY <1>3 DEF Authenticate
  <2>2. row[req[r].account] \in Rows BY DEF Reqs
  <2>3. CASE from = "loadAccount" BY <2>1, <2>2, <2>3 DEF Reqs, Steps
  <2>4. CASE from = "patchLoad" BY <2>1, <2>2, <2>4 DEF Reqs, Steps
  <2>5. CASE from = "huntLoad" BY <2>1, <2>2, <2>5 DEF Reqs, Steps
  <2> QED BY <2>3, <2>4, <2>5
<1>4. CASE Lookup(r)
  <2>1. CASE Goto(r, "receipt") BY <2>1, StepType DEF Goto, Steps
  <2>2. CASE End(r) BY <1>0, <2>2 DEF End
  <2> QED BY <1>4, <2>1, <2>2 DEF Lookup
<1>5. CASE Receipt(r)
  <2>1. CASE req' = [req EXCEPT ![r] = Idle] BY <1>0, <2>1
  <2>2. CASE req' = [req EXCEPT ![r] = [@ EXCEPT !.step = "save",
                        !.copy = extendSubscription(req[r].copy, req[r].pay)]]
    <3>1. req[r].copy \in Rows /\ now \in Nat BY DEF Reqs
    <3>2. req[r].pay \in Payments \cup {NoPayment} BY DEF Reqs
    <3>4. extendSubscription(req[r].copy, req[r].pay) \in Rows
      BY <3>1, <3>2, ExtendType
    <3> DEFINE copy == extendSubscription(req[r].copy, req[r].pay)
               q == [req[r] EXCEPT !.step = "save", !.copy = copy]
    <3>5. copy \in Rows BY <3>4
    <3>6. req' = [req EXCEPT ![r] = q] BY <2>2
    <3> HIDE DEF copy
    <3>7. q \in Reqs BY <3>5 DEF Reqs, Steps
    <3> QED BY <3>6, <3>7
  <2> QED BY <1>5, <2>1, <2>2 DEF Receipt, End
<1>6. CASE \E on \in BOOLEAN : PatchFields(r, on)
  <2>1. PICK on \in BOOLEAN :
            req' = [req EXCEPT ![r] = [@ EXCEPT !.step = "save", !.copy.autoMint = on]]
    BY <1>6 DEF PatchFields
  <2> DEFINE copy == [req[r].copy EXCEPT !.autoMint = on]
             q == [req[r] EXCEPT !.step = "save", !.copy = copy]
  <2>2. req[r].copy \in Rows BY DEF Reqs
  <2>3. copy \in Rows BY <2>2 DEF Rows
  <2>4. req' = [req EXCEPT ![r] = q] BY <2>1
  <2> HIDE DEF copy
  <2>5. q \in Reqs BY <2>3 DEF Reqs, Steps
  <2> QED BY <2>4, <2>5
<1>7. CASE Save(r) BY <1>0, <1>7 DEF Save, End
<1>8. CASE HuntGate(r)
  <2>1. CASE req' = [req EXCEPT ![r] = [@ EXCEPT !.step = "cycle", !.bill = billing]]
    <3>1. [req[r] EXCEPT !.step = "cycle", !.bill = billing] \in Reqs
      BY DEF Reqs, Steps
    <3> QED BY <2>1, <3>1
  <2>2. CASE End(r) BY <1>0, <2>2 DEF End
  <2> QED BY <1>8, <2>1, <2>2 DEF HuntGate
<1>9. CASE CycleEnds(r) \/ Throw(r)
  BY <1>0, <1>9 DEF CycleEnds, Throw, End
<1> QED BY <1>1, <1>2, <1>3, <1>4, <1>5, <1>6, <1>7, <1>8, <1>9 DEF Handler

(* Every reachable state of the subscription is well typed. *)
THEOREM TypeCorrect == Spec => []TypeOK
<1>1. Init => TypeOK
  BY IdleType DEF Init, TypeOK, Rows, NoRow
<1>2. TypeOK /\ [Next]_vars => TypeOK'
  <2> SUFFICES ASSUME TypeOK, [Next]_vars PROVE TypeOK'
    OBVIOUS
  <2> USE DEF TypeOK
  <2>1. CASE \E a \in Accounts : SignUp(a)
    <3>1. NewRow \in Rows BY DEF NewRow, NoRow, Rows
    <3> QED BY <2>1, <3>1 DEF SignUp
  <2>2. ASSUME NEW r \in Requests, Handler(r) PROVE TypeOK'
    <3>1. req' \in [Requests -> Reqs] BY <2>2, HandlerReq
    <3>2. CASE Save(r)
      <4>1. /\ req[r].copy \in Rows
            /\ req[r].pay \in Payments \cup {NoPayment}
        BY DEF Reqs
      <4>2. row' \in [Accounts -> Rows] BY <3>2, <4>1 DEF Save
      <4>3. applied' \in [Accounts -> SUBSET Payments] BY <3>2, <4>1 DEF Save
      <4> QED BY <3>1, <3>2, <4>2, <4>3 DEF Save
    <3>3. CASE ~Save(r)
      BY <3>1, <2>2, <3>3 DEF Handler, Arrive, LoadBilling, Authenticate, Lookup, Receipt,
         PatchFields, HuntGate, CycleEnds, Throw
    <3> QED BY <3>2, <3>3
  <2>3. CASE SetBilling BY <2>3 DEF SetBilling
  <2>4. CASE \E p \in Payments : ChainStep(p)
    BY <2>4 DEF ChainStep
  <2>5. CASE Tick BY <2>5 DEF Tick
  <2>6. CASE UNCHANGED vars BY <2>6 DEF vars
  <2> QED BY <2>1, <2>2, <2>3, <2>4, <2>5, <2>6 DEF Next
<1> QED BY <1>1, <1>2, PTL DEF Spec

(* What an account has paid once the step is taken. *)
PaidAfter(a) == {p \in Payments : chain'[p] = "mined" /\ Tx[p].from = a}

(* A mined payment stays mined, so what an account has paid only grows. *)
LEMMA PaidGrows ==
    ASSUME TypeOK, [Next]_vars
    PROVE  \A a : PaidBy(a) \subseteq PaidAfter(a)
<1>1. CASE \E p \in Payments : ChainStep(p)
  BY <1>1 DEF ChainStep, PaidBy, PaidAfter, TypeOK
<1>2. CASE chain' = chain BY <1>2 DEF PaidBy, PaidAfter
<1>3. (\E p \in Payments : ChainStep(p)) \/ chain' = chain
  BY DEF Next, vars, SignUp, SetBilling, Tick, Handler, Arrive, LoadBilling, Authenticate,
     Lookup, Receipt, PatchFields, Save, HuntGate, CycleEnds, Throw
<1> QED BY <1>1, <1>2, <1>3

(* Each step of a handler leaves its own record sound. *)
LEMMA HandlerSound ==
    ASSUME TypeOK, PaidInv, [Next]_vars, NEW r \in Requests, Handler(r)
    PROVE  Sound(req[r])'
<1> DEFINE q == req[r]
           Good(n) == /\ Backed(n.copy, PaidAfter(n.account))
                      /\ n.step \in {"idle", "loadBilling", "loadAccount", "patchLoad", "huntLoad"}
                            => n.copy = NoRow
                      /\ n.step \in {"loadBilling", "loadAccount", "lookup", "receipt"}
                            => n.pay \in Payments
                      /\ n.step = "cycle" /\ n.bill.enabled => n.copy.txHash # NoPayment
<1> SUFFICES Good(req'[r])
  BY DEF Sound, PaidBy, PaidAfter
<1>a. \A a : PaidBy(a) \subseteq PaidAfter(a) BY PaidGrows
<1>b. q \in Reqs /\ Sound(q) BY DEF TypeOK, PaidInv
<1>c. Backed(q.copy, PaidAfter(q.account)) BY <1>a, <1>b DEF Sound, Backed
<1>d. \A n : req' = [req EXCEPT ![r] = n] => req'[r] = n BY DEF TypeOK
<1>e. \A a : Backed(NoRow, PaidAfter(a)) BY DEF Backed, NoRow
<1>f. Good(Idle) BY <1>e DEF Idle
<1>g. CASE End(r) BY <1>d, <1>f, <1>g DEF End
<1> HIDE DEF Good
<1>1. CASE \E a \in Accounts, p \in Payments : Arrive(r, a, p)
  <2>1. PICK a \in Accounts, p \in Payments, step \in {"loadBilling", "patchLoad", "huntLoad"} :
            /\ req[r].step = "idle"
            /\ req' = [req EXCEPT ![r] = [@ EXCEPT !.step = step, !.account = a,
                        !.pay = IF step = "loadBilling" THEN p ELSE NoPayment]]
    BY <1>1 DEF Arrive
  <2> DEFINE n == [q EXCEPT !.step = step, !.account = a,
                     !.pay = IF step = "loadBilling" THEN p ELSE NoPayment]
  <2>2. req'[r] = n BY <2>1, <1>d
  <2>3. q.copy = NoRow BY <2>1, <1>b DEF Sound
  <2>4. n.copy = NoRow /\ n.account = a /\ n.step = step /\ (step = "loadBilling" => n.pay = p)
    BY <2>3, <1>b DEF Reqs
  <2>5. Good(n) BY <2>4, <1>e DEF Good
  <2> QED BY <2>2, <2>5
<1>2. CASE LoadBilling(r)
  <2> DEFINE n == [q EXCEPT !.step = "loadAccount", !.bill = billing]
  <2>1. q.step = "loadBilling" /\ req'[r] = n BY <1>2, <1>d DEF LoadBilling
  <2>2. n.copy = q.copy /\ n.account = q.account /\ n.step = "loadAccount" /\ n.pay = q.pay
    BY <1>b DEF Reqs
  <2>3. Good(n) BY <2>1, <2>2, <1>b, <1>c DEF Good, Sound
  <2> QED BY <2>1, <2>3
<1>3. CASE Authenticate(r)
  <2>1. PICK from \in {"loadAccount", "patchLoad", "huntLoad"} :
            /\ q.step = from
            /\ req' = [req EXCEPT ![r] =
                [@ EXCEPT !.copy = row[req[r].account],
                          !.step = CASE from = "loadAccount" -> "lookup"
                                     [] from = "patchLoad" -> "patchHost"
                                     [] from = "huntLoad" -> "huntGate"]]
    BY <1>3 DEF Authenticate
  <2> DEFINE step == CASE from = "loadAccount" -> "lookup"
                       [] from = "patchLoad" -> "patchHost"
                       [] from = "huntLoad" -> "huntGate"
             n == [q EXCEPT !.copy = row[q.account], !.step = step]
  <2>2. req'[r] = n BY <2>1, <1>d
  <2>3. /\ step \in {"lookup", "patchHost", "huntGate"}
        /\ step = "lookup" => from = "loadAccount"
    OBVIOUS
  <2> HIDE DEF step
  <2>4. n.copy = row[q.account] /\ n.account = q.account /\ n.step = step /\ n.pay = q.pay
    BY <1>b DEF Reqs
  <2>5. Backed(row[q.account], PaidAfter(q.account))
    BY <1>a, <1>b DEF PaidInv, Backed, Reqs
  <2>6. Good(n) BY <2>1, <2>3, <2>4, <2>5, <1>b DEF Good, Sound
  <2> QED BY <2>2, <2>6
<1>4. CASE Lookup(r) /\ ~End(r)
  <2> DEFINE n == [q EXCEPT !.step = "receipt"]
  <2>1. q.step = "lookup" /\ req'[r] = n BY <1>4, <1>d DEF Lookup, Goto
  <2>2. n.copy = q.copy /\ n.account = q.account /\ n.step = "receipt" /\ n.pay = q.pay
    BY <1>b DEF Reqs
  <2>3. Good(n) BY <2>1, <2>2, <1>b, <1>c DEF Good, Sound
  <2> QED BY <2>1, <2>3
<1>5. CASE Receipt(r) /\ ~End(r)
  <2> DEFINE copy == extendSubscription(q.copy, q.pay)
             n == [q EXCEPT !.step = "save", !.copy = copy]
  <2>1. q.step = "receipt" /\ GoodPayment(r) /\ req'[r] = n BY <1>5, <1>d DEF Receipt
  <2>2. q.pay \in Payments BY <2>1, <1>b DEF Sound
  <2>3. q.pay \in PaidBy(q.account) BY <2>1, <2>2 DEF GoodPayment, PaidBy
  <2>4. copy.txHash = q.pay BY <2>2, <1>b, ExtendType DEF TypeOK, Reqs
  <2> HIDE DEF copy
  <2>5. n.copy = copy /\ n.account = q.account /\ n.step = "save"
    BY <1>b DEF Reqs
  <2>6. q.pay # NoPayment BY <2>2, SubscriptionAssumption
  <2>7. Good(n) BY <2>3, <2>4, <2>5, <2>6, <1>a DEF Good, Backed
  <2> QED BY <2>1, <2>7
<1>6. CASE \E on \in BOOLEAN : PatchFields(r, on)
  <2>1. PICK on \in BOOLEAN :
            req' = [req EXCEPT ![r] = [@ EXCEPT !.step = "save", !.copy.autoMint = on]]
    BY <1>6 DEF PatchFields
  <2> DEFINE copy == [q.copy EXCEPT !.autoMint = on]
             n == [q EXCEPT !.step = "save", !.copy = copy]
  <2>6. req' = [req EXCEPT ![r] = n] BY <2>1
  <2>2. req'[r] = n BY <2>6, <1>d
  <2>3. copy.txHash = q.copy.txHash /\ copy.until = q.copy.until
    BY <1>b DEF Reqs, Rows
  <2> HIDE DEF copy
  <2>4. n.copy = copy /\ n.account = q.account /\ n.step = "save"
    BY <1>b DEF Reqs
  <2>5. Good(n) BY <2>3, <2>4, <1>c DEF Good, Backed
  <2> QED BY <2>2, <2>5
<1>7. CASE HuntGate(r) /\ ~End(r)
  <2> DEFINE n == [q EXCEPT !.step = "cycle", !.bill = billing]
  <2>1. Active(billing, q.copy) /\ req'[r] = n BY <1>7, <1>d DEF HuntGate
  <2>2. n.copy = q.copy /\ n.account = q.account /\ n.step = "cycle" /\ n.bill = billing
    BY <1>b DEF Reqs
  <2>3. Good(n) BY <2>1, <2>2, <1>c DEF Good, Active
  <2> QED BY <2>1, <2>3
<1> QED BY <1>g, <1>1, <1>2, <1>3, <1>4, <1>5, <1>6, <1>7
        DEF Handler, Save, CycleEnds, Throw

(* A handler touches no other handler's record. *)
LEMMA OthersKept ==
    ASSUME TypeOK, NEW r \in Requests, Handler(r), NEW s \in Requests, s # r
    PROVE  req'[s] = req[s]
BY DEF TypeOK, Handler, Arrive, LoadBilling, Authenticate, Lookup, Receipt, PatchFields,
   Save, HuntGate, CycleEnds, Throw, Goto, End

(* A step writes no row but a new one, or the copy of a handler that saves. *)
LEMMA RowsWritten ==
    ASSUME TypeOK, [Next]_vars, NEW a \in Accounts
    PROVE  \/ row'[a] = row[a]
           \/ row'[a] = NewRow
           \/ \E r \in Requests : req[r].account = a /\ row'[a] = req[r].copy
<1> USE DEF TypeOK
<1>1. CASE \E b \in Accounts : SignUp(b) BY <1>1 DEF SignUp
<1>2. CASE \E r \in Requests : Save(r) BY <1>2 DEF Save
<1>3. CASE row' = row BY <1>3
<1> QED BY <1>1, <1>2, <1>3 DEF Next, vars, SetBilling, ChainStep, Tick, Handler, Arrive,
   LoadBilling, Authenticate, Lookup, Receipt, PatchFields, HuntGate, CycleEnds, Throw

(* A step that is not a handler's changes no request. *)
LEMMA OnlyHandlers ==
    ASSUME [Next]_vars
    PROVE  (\E r \in Requests : Handler(r)) \/ req' = req
BY DEF Next, vars, SignUp, SetBilling, ChainStep, Tick

(* The strengthening holds always: every paid row rests on a mined payment. *)
LEMMA PaidInvHolds == Spec => []PaidInv
<1>1. Init => PaidInv
  <2>1. Idle.step = "idle" /\ Idle.copy = NoRow BY DEF Idle
  <2>2. NoRow.txHash = NoPayment /\ NoRow.until = 0 BY DEF NoRow
  <2> QED BY <2>1, <2>2 DEF Init, PaidInv, Sound, Backed
<1>2. TypeOK /\ PaidInv /\ [Next]_vars => PaidInv'
  <2> SUFFICES ASSUME TypeOK, PaidInv, [Next]_vars PROVE PaidInv'
    OBVIOUS
  <2>1. \A a : PaidBy(a) \subseteq PaidAfter(a) BY PaidGrows
  <2>2. ASSUME NEW a \in Accounts PROVE Backed(row'[a], PaidAfter(a))
    <3>1. CASE row'[a] = row[a] BY <2>1, <3>1 DEF PaidInv, Backed
    <3>2. CASE row'[a] = NewRow BY <3>2 DEF NewRow, NoRow, Backed
    <3>3. CASE \E r \in Requests : req[r].account = a /\ row'[a] = req[r].copy
      BY <2>1, <3>3 DEF PaidInv, Sound, Backed
    <3> QED BY <3>1, <3>2, <3>3, RowsWritten
  <2>3. ASSUME NEW s \in Requests, req'[s] = req[s] PROVE Sound(req[s])'
    <3>1. Sound(req[s]) BY DEF PaidInv
    <3> QED BY <2>1, <2>3, <3>1 DEF Sound, Backed, PaidBy, PaidAfter
  <2>4. ASSUME NEW s \in Requests PROVE Sound(req[s])'
    <3>1. CASE \E r \in Requests : Handler(r)
      <4>1. PICK r \in Requests : Handler(r) BY <3>1
      <4>2. CASE s = r BY <4>1, <4>2, HandlerSound
      <4>3. CASE s # r BY <4>1, <4>3, OthersKept, <2>3
      <4> QED BY <4>2, <4>3
    <3>2. CASE req' = req BY <3>2, <2>3
    <3> QED BY <3>1, <3>2, OnlyHandlers
  <2> QED BY <2>2, <2>4 DEF PaidInv, PaidBy, PaidAfter
<1> QED BY <1>1, <1>2, TypeCorrect, PTL DEF Spec

(* No hunt cycle runs for an account that never paid, for any interleaving  *)
(* of handlers, price changes and blocks.                                   *)
THEOREM CyclesArePaidFor == Spec => []NoFreeCycle
<1>1. PaidInv => NoFreeCycle
  BY DEF PaidInv, Sound, Backed, NoFreeCycle
<1> QED BY <1>1, PaidInvHolds, PTL

(* One handler step keeps its copy within a period of the clock. *)
LEMMA HandlerMonth ==
    ASSUME OnePaymentEach, TypeOK, PaidInv, MonthInv, NEW r \in Requests, Handler(r)
    PROVE  req'[r].copy.until <= now + Period
<1> DEFINE q == req[r]
<1>a. q \in Reqs /\ Sound(q) /\ q.copy.until <= now + Period BY DEF TypeOK, PaidInv, MonthInv
<1>b. now \in Nat /\ Period \in Nat BY SubscriptionAssumption DEF TypeOK
<1>c. \A n : req' = [req EXCEPT ![r] = n] => req'[r] = n BY DEF TypeOK
<1>1. CASE End(r)
  <2>1. Idle.copy.until = 0 BY DEF Idle, NoRow
  <2>2. req'[r] = Idle BY <1>1, <1>c DEF End
  <2>3. 0 <= now + Period BY <1>b
  <2> QED BY <2>1, <2>2, <2>3
<1>2. CASE \/ \E a \in Accounts, p \in Payments : Arrive(r, a, p)
           \/ LoadBilling(r) \/ (Lookup(r) /\ ~End(r)) \/ (HuntGate(r) /\ ~End(r))
  <2>1. CASE \E a \in Accounts, p \in Payments : Arrive(r, a, p)
    BY <2>1, <1>a, <1>c DEF Arrive, Reqs
  <2>2. CASE LoadBilling(r) BY <2>2, <1>a, <1>c DEF LoadBilling, Reqs
  <2>3. CASE Lookup(r) /\ ~End(r) BY <2>3, <1>a, <1>c DEF Lookup, Goto, Reqs
  <2>4. CASE HuntGate(r) /\ ~End(r) BY <2>4, <1>a, <1>c DEF HuntGate, Reqs
  <2> QED BY <1>2, <2>1, <2>2, <2>3, <2>4
<1>3. CASE Authenticate(r)
  <2>1. req'[r].copy = row[q.account]
    BY <1>3, <1>a DEF Authenticate, TypeOK, Reqs
  <2> QED BY <2>1, <1>a DEF MonthInv, Reqs
<1>4. CASE Receipt(r) /\ ~End(r)
  <2>1. /\ q.step = "receipt" /\ GoodPayment(r) /\ ~AlreadyApplied(r)
        /\ req'[r].copy = extendSubscription(q.copy, q.pay)
    BY <1>4, <1>a DEF Receipt, TypeOK, Reqs
  <2>2. q.pay \in Payments BY <2>1, <1>a DEF Sound
  <2>3. q.pay \in PaidBy(q.account) BY <2>1, <2>2 DEF GoodPayment, PaidBy
  <2>4. q.copy.txHash = NoPayment
    BY <2>1, <2>3, <1>a DEF OnePaymentEach, Sound, Backed, AlreadyApplied, PaidBy
  <2>5. q.copy.until = 0 BY <2>4, <1>a DEF Sound, Backed
  <2>6. req'[r].copy.until = (IF q.copy.until > now THEN q.copy.until ELSE now) + Period
    BY <2>1, <2>2, <1>a, <1>b, ExtendType DEF Reqs
  <2> QED BY <2>5, <2>6, <1>b
<1>5. CASE \E on \in BOOLEAN : PatchFields(r, on)
  <2>1. PICK on \in BOOLEAN :
            req' = [req EXCEPT ![r] = [@ EXCEPT !.step = "save", !.copy.autoMint = on]]
    BY <1>5 DEF PatchFields
  <2> DEFINE copy == [q.copy EXCEPT !.autoMint = on]
             n == [q EXCEPT !.step = "save", !.copy = copy]
  <2>2. req' = [req EXCEPT ![r] = n] BY <2>1
  <2>3. req'[r] = n BY <2>2, <1>c
  <2>4. copy.until = q.copy.until BY <1>a DEF Reqs, Rows
  <2> HIDE DEF copy
  <2>5. n.copy = copy BY <1>a DEF Reqs
  <2> QED BY <2>3, <2>4, <2>5, <1>a
<1> QED BY <1>1, <1>2, <1>3, <1>4, <1>5 DEF Handler, Save, CycleEnds, Throw

(* With one payment an account, nothing is ever more than a period ahead. *)
LEMMA MonthInvHolds == ASSUME OnePaymentEach PROVE Spec => []MonthInv
<1>1. Init => MonthInv
  <2>1. Idle.copy.until = 0 /\ NoRow.until = 0 BY DEF Idle, NoRow
  <2> QED BY <2>1, SubscriptionAssumption DEF Init, MonthInv
<1>2. TypeOK /\ PaidInv /\ MonthInv /\ [Next]_vars => MonthInv'
  <2> SUFFICES ASSUME TypeOK, PaidInv, MonthInv, [Next]_vars PROVE MonthInv'
    OBVIOUS
  <2>1. now \in Nat /\ Period \in Nat BY SubscriptionAssumption DEF TypeOK
  <2>2. now' \in Nat /\ now <= now'
    <3>1. Tick \/ now' = now
      BY DEF Next, vars, SignUp, SetBilling, ChainStep, Handler, Arrive, LoadBilling,
         Authenticate, Lookup, Receipt, PatchFields, Save, HuntGate, CycleEnds, Throw
    <3> QED BY <3>1, <2>1 DEF Tick
  <2>3. ASSUME NEW s \in Rows, s.until <= now + Period PROVE s.until <= now' + Period
    <3>1. s.until \in Nat BY DEF Rows
    <3> QED BY <2>1, <2>2, <2>3, <3>1
  <2>4. ASSUME NEW a \in Accounts PROVE row'[a].until <= now' + Period
    <3>1. CASE row'[a] = row[a] BY <2>3, <3>1 DEF MonthInv, TypeOK
    <3>2. CASE row'[a] = NewRow BY <2>1, <2>2, <3>2 DEF NewRow, NoRow
    <3>3. CASE \E r \in Requests : req[r].account = a /\ row'[a] = req[r].copy
      BY <2>3, <3>3 DEF MonthInv, TypeOK, Reqs
    <3> QED BY <3>1, <3>2, <3>3, RowsWritten
  <2>5. ASSUME NEW s \in Requests PROVE req'[s].copy.until <= now' + Period
    <3>1. CASE req'[s] = req[s] BY <2>3, <3>1 DEF MonthInv, TypeOK, Reqs
    <3>2. CASE Handler(s)
      <4>1. req'[s].copy.until <= now + Period BY <3>2, HandlerMonth
      <4>2. req' \in [Requests -> Reqs] BY <3>2, HandlerReq
      <4> QED BY <2>3, <4>1, <4>2 DEF Reqs
    <3> QED BY <3>1, <3>2, OnlyHandlers, OthersKept
  <2> QED BY <2>4, <2>5 DEF MonthInv
<1> QED BY <1>1, <1>2, TypeCorrect, PaidInvHolds, PTL DEF Spec

(* The product of a period and a count of at least one is at least a period. *)
LEMMA AtLeastOnePeriod ==
    ASSUME NEW p \in Nat, NEW n \in Nat
    PROVE  p * n \in Nat /\ (n # 0 => p <= p * n)
OBVIOUS

(* An account that makes one payment never gets a second month out of it,   *)
(* whatever is reposted, repriced or saved from a stale copy.               *)
THEOREM OneMonthPerPayment == ASSUME OnePaymentEach PROVE Spec => []MonthPerPayment
<1>1. TypeOK /\ PaidInv /\ MonthInv => MonthPerPayment
  <2> SUFFICES ASSUME TypeOK, PaidInv, MonthInv, NEW a \in Accounts
               PROVE  row[a].until <= now + Period * Cardinality(PaidBy(a))
    BY DEF MonthPerPayment
  <2> DEFINE n == Cardinality(PaidBy(a))
  <2>1. now \in Nat /\ Period \in Nat BY SubscriptionAssumption DEF TypeOK
  <2>2. IsFiniteSet(PaidBy(a))
    BY SubscriptionAssumption, FS_Subset DEF PaidBy
  <2>3. n \in Nat BY <2>2, FS_CardinalityType
  <2>4. Period * n \in Nat /\ (n # 0 => Period <= Period * n)
    BY <2>1, <2>3, AtLeastOnePeriod
  <2>5. CASE row[a].txHash = NoPayment
    <3>1. row[a].until = 0 BY <2>5 DEF PaidInv, Backed
    <3> HIDE DEF n
    <3> QED BY <3>1, <2>1, <2>4 DEF n
  <2>6. CASE row[a].txHash # NoPayment
    <3>1. row[a].txHash \in PaidBy(a) BY <2>6 DEF PaidInv, Backed
    <3>2. n # 0 BY <3>1, <2>2, FS_EmptySet
    <3>3. row[a].until \in Nat /\ row[a].until <= now + Period BY DEF TypeOK, Rows, MonthInv
    <3> HIDE DEF n
    <3>4. \A u, w \in Nat : u <= now + Period /\ Period <= w => u <= now + w BY <2>1
    <3> QED BY <3>2, <3>3, <3>4, <2>4 DEF n
  <2> QED BY <2>5, <2>6
<1> QED BY <1>1, TypeCorrect, PaidInvHolds, MonthInvHolds, PTL
============================================================================
