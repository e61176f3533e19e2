---------------------------- MODULE BotRunProofs ----------------------------
(* Theorems about BotRun, for any wallets, endpoints, prices and limits.     *)
EXTENDS BotRun, TLAPS, FiniteSetTheorems

(* The steps of preparation after the ceiling was tested. *)
Passed == {"prime", "armed", "race", "done", "dry"}

(* What the ceiling rests on: past preflight, a run over HTTP was allowed.   *)
CeilingInv ==
    /\ run.api \in BOOLEAN /\ run.configured \in BOOLEAN /\ run.gas \in GasLimits
    /\ run.at \in Passed => Allowed

(* What a race knows, relates to its requests: it is told as soon as one     *)
(* succeeded, else when none is outstanding, and a success is told as such.  *)
RaceGood(t, q) ==
    /\ t \in [Endpoints -> Requests]
    /\ q \in Races
    /\ q.told # "none" <=> \/ \E e \in Endpoints : t[e] = "ok"
                           \/ \A e \in Endpoints : t[e] \notin {"unsent", "flying", "broken"}
    /\ (\E e \in Endpoints : t[e] = "ok") => q.told = "accepted"
    /\ (\E e \in Endpoints : t[e] = "unsent") => \A e \in Endpoints : t[e] = "unsent"
RaceInv ==
    /\ try \in [Txs -> [Endpoints -> Requests]] /\ race \in [Txs -> Races]
    /\ \A tx \in Txs : RaceGood(try[tx], race[tx])
    /\ run.at \in {"preflight", "prime", "armed"} =>
          \A tx \in Txs : /\ race[tx].told = "none"
                          /\ \A e \in Endpoints : try[tx][e] = "unsent"

----------------------------------------------------------------------------
(* A larger gas limit commits no less. *)
LEMMA Monotone ==
    ASSUME NEW v \in Nat, NEW f \in Nat, NEW b \in Nat, NEW g \in Nat, NEW h \in Nat, g <= h
    PROVE  (v + g * f) * b <= (v + h * f) * b
<1>1. PICK d \in Nat : h = g + d
  <2>1. h - g \in Nat /\ h = g + (h - g)
    OBVIOUS
  <2>2. QED BY <2>1
<1>2. (g + d) * f = g * f + d * f /\ g * f \in Nat /\ d * f \in Nat
  OBVIOUS
<1>3. v + h * f = (v + g * f) + d * f
  BY <1>1, <1>2
<1>4. ASSUME NEW x \in Nat, NEW y \in Nat PROVE (x + y) * b = x * b + y * b /\ y * b >= 0 /\ x * b \in Nat /\ y * b \in Nat
  OBVIOUS
<1>5. v + g * f \in Nat
  BY <1>2
<1>6. QED BY <1>2, <1>3, <1>4, <1>5

(* Initially nothing has passed, and every step keeps what a run was given.  *)
LEMMA CeilingInit == Init => CeilingInv
BY DEF Init, CeilingInv, Passed

(* What is committed and what it was tested against change at one step each. *)
LEMMA CeilingStep == CeilingInv /\ [Next]_vars => CeilingInv'
<1> SUFFICES ASSUME CeilingInv, [Next]_vars PROVE CeilingInv'
  OBVIOUS
<1>a. ASSUME run' = run PROVE CeilingInv'
  BY <1>a DEF CeilingInv, Allowed, Projected, Batch
<1>b. ASSUME NEW s, run' = [run EXCEPT !.at = s], s \in Passed => Allowed PROVE CeilingInv'
  BY <1>b DEF CeilingInv, Allowed, Projected, Batch
<1>1. CASE Throw
  BY <1>1, <1>b DEF Throw, Passed
<1>2. CASE Hang
  BY <1>2, <1>b DEF Hang, Passed
<1>3. CASE Preflight
  BY <1>3, <1>b DEF Preflight
<1>4. CASE Presign
  <2>1. run' = [run EXCEPT !.at = IF run.dry THEN "dry" ELSE "armed"] /\ Allowed
    BY <1>4 DEF Presign, CeilingInv, Passed
  <2>2. QED BY <2>1, <1>b
<1>5. ASSUME NEW w \in Wallets, Prime(w) PROVE CeilingInv'
  BY <1>5 DEF Prime, CeilingInv, Allowed, Projected, Batch, Passed
<1>6. ASSUME Fired, run.at = "armed" PROVE CeilingInv'
  <2>1. Allowed
    BY <1>6 DEF CeilingInv, Passed
  <2>2. QED BY <1>6, <2>1, <1>b DEF Fired
<1>7. CASE Fire
  BY <1>7, <1>6 DEF Fire
<1>8. CASE Finish
  <2>1. Allowed
    BY <1>8 DEF Finish, CeilingInv, Passed
  <2>2. QED BY <1>8, <2>1, <1>b DEF Finish
<1>9. CASE SaleOpens
  BY <1>9, <1>6, <1>a DEF SaleOpens
<1>10. CASE Request
  BY <1>10, <1>a DEF Request, Answered, BrokenOff, TimesOut
<1>11. ASSUME NEW tx \in Txs, NEW e \in Endpoints, ArrivesLate(tx, e) PROVE CeilingInv'
  BY <1>11, <1>a DEF ArrivesLate
<1>12. ASSUME NEW w \in Wallets, Mine(w) \/ Other(w) PROVE CeilingInv'
  BY <1>12, <1>a DEF Mine, Other
<1>13. CASE Tick
  BY <1>13, <1>a DEF Tick
<1>14. CASE UNCHANGED vars
  BY <1>14, <1>a DEF vars
<1> QED
  BY <1>1, <1>2, <1>3, <1>4, <1>5, <1>7, <1>8, <1>9, <1>10, <1>11, <1>12, <1>13, <1>14 DEF Next, Prepare

(* A run started over HTTP never commits more than the ceiling, when its gas *)
(* limit is configured or its estimate is within what runMintService assumed *)
(* (service.ts:291): the step from the projected to the actual cost is       *)
(* Monotone.                                                                 *)
THEOREM CeilingSafe == Spec => []CeilingHeld
<1>1. CeilingInv => CeilingHeld
  <2> SUFFICES ASSUME CeilingInv, run.api, run.at \in {"armed", "race", "done"},
                      run.configured \/ run.gas <= AssumedGas
               PROVE  Committed <= Ceiling
    BY DEF CeilingHeld
  <2>1. Projected <= Ceiling
    BY DEF CeilingInv, Passed, Allowed
  <2>2. Batch \in Nat
    BY BotRunAssumption, FS_CardinalityType DEF BotRunAssumption, Batch
  <2>3. Value \in Nat /\ Fee \in Nat /\ AssumedGas \in Nat /\ Ceiling \in Nat /\ run.gas \in Nat
    BY BotRunAssumption DEF BotRunAssumption, CeilingInv
  <2>4. CASE run.configured
    BY <2>1, <2>4 DEF Projected, Committed
  <2>5. CASE ~run.configured
    <3>1. Committed <= Projected
      BY <2>2, <2>3, <2>5, Monotone DEF Projected, Committed
    <3>2. Committed \in Int /\ Projected \in Int
      BY <2>2, <2>3, <2>5 DEF Projected, Committed
    <3>3. QED BY <2>1, <2>3, <3>1, <3>2
  <2>6. QED BY <2>4, <2>5
<1>2. QED BY CeilingInit, CeilingStep, <1>1, PTL DEF Spec

----------------------------------------------------------------------------
(* Types.  TypeOK is TypeInv together with what RaceInv says of the races.   *)
TypeInv ==
    /\ run \in RunTypes
    /\ ledger \in [Wallets -> Seq(Txs \cup {Foreign})]
    /\ mined \in [Wallets -> Nat]
    /\ now \in Nat /\ open \in BOOLEAN
    /\ \A w \in Wallets : mined[w] <= Len(ledger[w])

(* The initial values have their types. *)
LEMMA TypeInit == Init => TypeInv
<1> SUFFICES ASSUME Init PROVE TypeInv
  OBVIOUS
<1>1. run \in RunTypes
  BY DEF Init, RunTypes, Steps, Unprimed
<1>2. ledger \in [Wallets -> Seq(Txs \cup {Foreign})] /\ mined \in [Wallets -> Nat]
  BY DEF Init
<1>3. now \in Nat /\ open \in BOOLEAN
  BY DEF Init
<1>4. ASSUME NEW w \in Wallets PROVE mined[w] <= Len(ledger[w])
  <2>1. mined[w] = 0 /\ ledger[w] = <<>>
    BY DEF Init
  <2>2. QED BY <2>1
<1>5. QED BY <1>1, <1>2, <1>3, <1>4 DEF TypeInv

(* A transaction the sequencer takes goes to the end of its wallet's ledger. *)
LEMMA TakeTyped ==
    ASSUME TypeInv, NEW w \in Wallets, NEW tx \in Txs \cup {Foreign}, Take(w, tx)
    PROVE  /\ ledger' \in [Wallets -> Seq(Txs \cup {Foreign})]
           /\ \A v \in Wallets : mined[v] <= Len(ledger'[v])
<1>1. ledger[w] \in Seq(Txs \cup {Foreign}) /\ mined[w] \in Nat
  BY DEF TypeInv
<1>2. Append(ledger[w], tx) \in Seq(Txs \cup {Foreign}) /\ Len(Append(ledger[w], tx)) = Len(ledger[w]) + 1
      /\ Len(ledger[w]) \in Nat
  BY <1>1
<1>3. ledger' = [ledger EXCEPT ![w] = Append(ledger[w], tx)]
  BY DEF Take
<1>4. ledger' \in [Wallets -> Seq(Txs \cup {Foreign})]
  BY <1>2, <1>3 DEF TypeInv
<1>5. ASSUME NEW v \in Wallets PROVE mined[v] <= Len(ledger'[v])
  BY <1>1, <1>2, <1>3 DEF TypeInv
<1>6. QED BY <1>4, <1>5

(* So does one that arrives, in time or late. *)
LEMMA ArrivalTyped ==
    ASSUME TypeInv, NEW tx \in Txs, Arrival(tx)
    PROVE  /\ ledger' \in [Wallets -> Seq(Txs \cup {Foreign})]
           /\ \A v \in Wallets : mined[v] <= Len(ledger'[v])
<1>1. tx[1] \in Wallets
  BY DEF Txs
<1>2. CASE Fresh(tx)
  BY <1>1, <1>2, TakeTyped DEF Arrival
<1>3. CASE ~Fresh(tx)
  BY <1>3 DEF Arrival, TypeInv
<1>4. QED BY <1>2, <1>3

(* Every step keeps the types. *)
LEMMA TypeStep == TypeInv /\ [Next]_vars => TypeInv'
<1> SUFFICES ASSUME TypeInv, [Next]_vars PROVE TypeInv'
  OBVIOUS
<1>a. ASSUME NEW s \in Steps, run' = [run EXCEPT !.at = s] PROVE run' \in RunTypes
  BY <1>a DEF TypeInv, RunTypes
<1>b. ASSUME run' \in RunTypes, UNCHANGED World PROVE TypeInv'
  BY <1>b DEF TypeInv, World
<1>c. ASSUME UNCHANGED <<run, mined, now, open>>,
             ledger' \in [Wallets -> Seq(Txs \cup {Foreign})],
             \A v \in Wallets : mined[v] <= Len(ledger'[v])
      PROVE  TypeInv'
  BY <1>c DEF TypeInv
<1>1. CASE Throw
  BY <1>1, <1>a, <1>b DEF Throw, Steps
<1>2. CASE Hang
  BY <1>2, <1>a, <1>b DEF Hang, Steps
<1>3. CASE Preflight
  BY <1>3, <1>a, <1>b DEF Preflight, Steps
<1>4. CASE Presign
  <2>1. (IF run.dry THEN "dry" ELSE "armed") \in Steps
    BY DEF Steps
  <2>2. QED BY <1>4, <2>1, <1>a, <1>b DEF Presign
<1>5. ASSUME NEW w \in Wallets, Prime(w) PROVE TypeInv'
  <2>1. Len(ledger[w]) \in Nat
    BY DEF TypeInv
  <2>2. run' \in RunTypes
    BY <1>5, <2>1 DEF Prime, PendingNonce, TypeInv, RunTypes
  <2>3. QED BY <1>5, <2>2, <1>b DEF Prime
<1>6. CASE Fire
  BY <1>6, <1>a, <1>b DEF Fire, Fired, Steps
<1>7. CASE Finish
  BY <1>7, <1>a, <1>b DEF Finish, Steps
<1>8. CASE SaleOpens
  <2>1. run' \in RunTypes
    BY <1>8, <1>a DEF SaleOpens, Fired, Steps, TypeInv
  <2>2. QED BY <1>8, <2>1 DEF SaleOpens, TypeInv
<1>9. ASSUME NEW tx \in Txs, NEW e \in Endpoints, Answered(tx, e) \/ BrokenOff(tx, e) \/ ArrivesLate(tx, e)
      PROVE  TypeInv'
  BY <1>9, <1>c, ArrivalTyped DEF Answered, BrokenOff, ArrivesLate
<1>10. ASSUME NEW tx \in Txs, NEW e \in Endpoints, TimesOut(tx, e) PROVE TypeInv'
  BY <1>10, <1>b DEF TimesOut, TypeInv
<1>11. ASSUME NEW w \in Wallets, Mine(w) PROVE TypeInv'
  <2>1. Len(ledger[w]) \in Nat /\ mined[w] \in Nat
    BY DEF TypeInv
  <2>2. mined' \in [Wallets -> Nat] /\ \A v \in Wallets : mined'[v] <= Len(ledger[v])
    BY <1>11, <2>1 DEF Mine, TypeInv
  <2>3. QED BY <1>11, <2>2 DEF Mine, TypeInv
<1>12. ASSUME NEW w \in Wallets, Other(w) PROVE TypeInv'
  BY <1>12, <1>c, TakeTyped DEF Other
<1>13. CASE Tick
  BY <1>13 DEF Tick, TypeInv
<1>14. CASE UNCHANGED vars
  BY <1>14, <1>b DEF vars, World, TypeInv
<1> QED
  BY <1>1, <1>2, <1>3, <1>4, <1>5, <1>6, <1>7, <1>8, <1>9, <1>10, <1>11, <1>12, <1>13, <1>14
     DEF Next, Prepare, Request

----------------------------------------------------------------------------
(* What a race knows after the answer to the request at e: Settle, for one    *)
(* transaction.                                                              *)
Resolved(t, q, tx, e, answer) ==
    LET others == {f \in Endpoints \ {e} : t[f] \in {"flying", "broken"}}
        first == IF q.first = "none" /\ answer # "ok" THEN answer ELSE q.first
    IN  [first |-> first, told |-> IF q.told = "none" THEN Told(tx, others, first, answer) ELSE q.told]

(* One request of one race is settled. *)
LEMMA SettleGood ==
    ASSUME NEW t, NEW q, RaceGood(t, q), NEW tx, NEW e \in Endpoints, t[e] = "flying",
           NEW status \in {"ok", "failed", "adrift"}, NEW answer \in {"ok", "known", "error"},
           status = "ok" <=> answer = "ok"
    PROVE  RaceGood([t EXCEPT ![e] = status], Resolved(t, q, tx, e, answer))
<1> DEFINE others == {f \in Endpoints \ {e} : t[f] \in {"flying", "broken"}}
           first == IF q.first = "none" /\ answer # "ok" THEN answer ELSE q.first
           told == IF q.told = "none" THEN Told(tx, others, first, answer) ELSE q.told
<1>0. Resolved(t, q, tx, e, answer) = [first |-> first, told |-> told]
  BY DEF Resolved
<1> DEFINE u == [t EXCEPT ![e] = status]
<1>1. t \in [Endpoints -> Requests] /\ q \in Races
  BY DEF RaceGood
<1>2. u \in [Endpoints -> Requests] /\ u[e] = status /\ \A f \in Endpoints \ {e} : u[f] = t[f]
  BY <1>1 DEF Requests
<1>3. \A f \in Endpoints : t[f] # "unsent"
  BY DEF RaceGood
<1>4. \A f \in Endpoints : u[f] # "unsent"
  BY <1>2, <1>3
<1>5. first \in {"none", "known", "error"} /\ (answer # "ok" => first \in {"known", "error"})
  BY <1>1 DEF Races
<1>6. told \in {"none", "accepted", "rejected"}
  BY <1>1, <1>5 DEF Races, Told
<1>o. others # {} <=> \E f \in Endpoints \ {e} : t[f] \in {"flying", "broken"}
  OBVIOUS
<1>t. told = IF q.told = "none" THEN Told(tx, others, first, answer) ELSE q.told
  OBVIOUS
<1> HIDE DEF u, others, first, told
<1>7. CASE q.told # "none"
  <2>1. \E f \in Endpoints : t[f] = "ok" /\ f # e
    BY <1>7 DEF RaceGood
  <2>2. told = "accepted"
    BY <1>7, <2>1, <1>t DEF RaceGood
  <2>3. \E f \in Endpoints : u[f] = "ok"
    BY <2>1, <1>2
  <2>4. RaceGood(u, [first |-> first, told |-> told])
    BY <2>2, <2>3, <1>2, <1>4, <1>5 DEF RaceGood, Races
  <2>5. QED BY <2>4, <1>0 DEF u
<1>8. CASE q.told = "none"
  <2>1. \A f \in Endpoints : t[f] # "ok"
    BY <1>8 DEF RaceGood
  <2>2. told = Told(tx, others, first, answer)
    BY <1>8, <1>t
  <2>3. CASE answer = "ok"
    <3>1. told = "accepted" /\ u[e] = "ok"
      BY <2>2, <2>3, <1>2 DEF Told
    <3>2. RaceGood(u, [first |-> first, told |-> told])
      BY <3>1, <1>2, <1>4, <1>5 DEF RaceGood, Races
    <3>3. QED BY <3>2, <1>0 DEF u
  <2>4. CASE answer # "ok"
    <3>1. \A f \in Endpoints : u[f] # "ok"
      BY <2>1, <2>4, <1>2
    <3>2. told = "none" <=> others # {}
      BY <2>2, <2>4, <1>5 DEF Told
    <3>3. others # {} <=> \E f \in Endpoints : u[f] \in {"flying", "broken"}
      BY <1>2, <1>o, <2>4
    <3>4. RaceGood(u, [first |-> first, told |-> told])
      BY <3>1, <3>2, <3>3, <1>2, <1>4, <1>5, <1>6 DEF RaceGood, Races
    <3>5. QED BY <3>4, <1>0 DEF u
  <2>5. QED BY <2>3, <2>4
<1>9. QED BY <1>7, <1>8

(* No request has been sent when the program starts. *)
LEMMA RaceInit == Init => RaceInv
<1> SUFFICES ASSUME Init PROVE RaceInv
  OBVIOUS
<1>1. \A tx \in Txs : /\ try[tx] = [e \in Endpoints |-> "unsent"]
                       /\ race[tx] = [first |-> "none", told |-> "none"]
  BY DEF Init
<1>2. RaceGood([e \in Endpoints |-> "unsent"], [first |-> "none", told |-> "none"])
  BY BotRunAssumption DEF BotRunAssumption, RaceGood, Requests, Races
<1>3. try \in [Txs -> [Endpoints -> Requests]] /\ race \in [Txs -> Races]
  BY DEF Init, Requests, Races
<1>4. QED BY <1>1, <1>2, <1>3 DEF RaceInv

(* Every step keeps what a race knows in line with its requests. *)
LEMMA RaceStep == TypeInv /\ RaceInv /\ [Next]_vars => RaceInv'
<1> SUFFICES ASSUME TypeInv, RaceInv, [Next]_vars PROVE RaceInv'
  OBVIOUS
<1> DEFINE Before == {"preflight", "prime", "armed"}
<1>at. ASSUME NEW s, run' = [run EXCEPT !.at = s] PROVE run'.at = s
  BY <1>at DEF TypeInv, RunTypes
<1>a. ASSUME UNCHANGED <<try, race>>, run'.at \in Before => run.at \in Before PROVE RaceInv'
  BY <1>a DEF RaceInv
(* What happens to one request, once the requests are under way. *)
<1>b. ASSUME NEW tx \in Txs, NEW t, NEW q, try' = [try EXCEPT ![tx] = t], race' = [race EXCEPT ![tx] = q],
             RaceGood(t, q), UNCHANGED run, NEW e \in Endpoints, try[tx][e] # "unsent"
      PROVE  RaceInv'
  <2>1. run.at \notin Before
    BY <1>b DEF RaceInv
  <2>2. t \in [Endpoints -> Requests] /\ q \in Races
    BY <1>b DEF RaceGood
  <2>3. try' \in [Txs -> [Endpoints -> Requests]] /\ race' \in [Txs -> Races]
    BY <1>b, <2>2 DEF RaceInv
  <2>4. ASSUME NEW ux \in Txs PROVE RaceGood(try'[ux], race'[ux])
    <3>1. CASE ux = tx
      <4>1. try'[ux] = t /\ race'[ux] = q
        BY <1>b, <3>1 DEF RaceInv
      <4>2. QED BY <1>b, <4>1
    <3>2. CASE ux # tx
      <4>1. try'[ux] = try[ux] /\ race'[ux] = race[ux]
        BY <1>b, <3>2 DEF RaceInv
      <4>2. QED BY <4>1 DEF RaceInv
    <3>3. QED BY <3>1, <3>2
  <2>5. QED BY <1>b, <2>1, <2>3, <2>4 DEF RaceInv
<1>c. ASSUME Fired, run.at = "armed", UNCHANGED race PROVE RaceInv'
  <2>1. run'.at = "race"
    BY <1>c, <1>at DEF Fired
  <2>2. ASSUME NEW tx \in Txs PROVE RaceGood(try'[tx], race[tx])
    <3>1. race[tx] \in Races /\ race[tx].told = "none"
      BY <1>c DEF RaceInv
    <3>2. try'[tx] = [e \in Endpoints |-> "flying"]
      BY <1>c DEF Fired
    <3>3. QED BY <3>1, <3>2, BotRunAssumption DEF BotRunAssumption, RaceGood, Requests
  <2>3. try' \in [Txs -> [Endpoints -> Requests]]
    BY <1>c DEF Fired, Requests
  <2>4. QED BY <1>c, <2>1, <2>2, <2>3 DEF RaceInv
<1>d. ASSUME NEW tx \in Txs, NEW e \in Endpoints, try[tx][e] = "flying", UNCHANGED run,
             NEW status \in {"ok", "failed", "adrift"}, NEW answer \in {"ok", "known", "error"},
             status = "ok" <=> answer = "ok", Settle(tx, e, status, answer)
      PROVE  RaceInv'
  <2> DEFINE t == [try[tx] EXCEPT ![e] = status]
             q == Resolved(try[tx], race[tx], tx, e, answer)
  <2>1. RaceGood(try[tx], race[tx])
    BY DEF RaceInv
  <2>2. RaceGood(t, q)
    BY <1>d, <2>1, SettleGood
  <2>3. try' = [try EXCEPT ![tx] = t] /\ race' = [race EXCEPT ![tx] = q]
    BY <1>d DEF Settle, Resolved, RaceInv
  <2> HIDE DEF t, q
  <2>4. QED BY <1>b, <1>d, <2>2, <2>3
(* A request that is broken off, or arrives after its time-out. *)
<1>e. ASSUME NEW tx \in Txs, NEW e \in Endpoints, UNCHANGED <<run, race>>,
             NEW status, <<try[tx][e], status>> \in {<<"flying", "broken">>, <<"adrift", "failed">>},
             try' = [try EXCEPT ![tx][e] = status]
      PROVE  RaceInv'
  <2> DEFINE t == [try[tx] EXCEPT ![e] = status]
  <2>1. RaceGood(try[tx], race[tx])
    BY DEF RaceInv
  <2>2. t \in [Endpoints -> Requests] /\ t[e] = status /\ \A f \in Endpoints \ {e} : t[f] = try[tx][f]
    BY <1>e, <2>1 DEF RaceGood, Requests
  <2>3. try' = [try EXCEPT ![tx] = t] /\ race' = [race EXCEPT ![tx] = race[tx]]
    BY <1>e DEF RaceInv
  <2> HIDE DEF t
  <2>4. RaceGood(t, race[tx])
    BY <1>e, <2>1, <2>2 DEF RaceGood
  <2>5. QED BY <1>b, <1>e, <2>3, <2>4
<1>1. CASE Throw
  BY <1>1, <1>at, <1>a DEF Throw
<1>2. CASE Hang
  BY <1>2, <1>at, <1>a DEF Hang
<1>3. CASE Preflight
  BY <1>3, <1>at, <1>a DEF Preflight
<1>4. CASE Presign
  <2>1. run.at = "prime" /\ UNCHANGED <<try, race>>
    BY <1>4 DEF Presign
  <2>2. QED BY <2>1, <1>a
<1>5. ASSUME NEW w \in Wallets, Prime(w) PROVE RaceInv'
  <2>1. run.at = "prime" /\ UNCHANGED <<try, race>>
    BY <1>5 DEF Prime
  <2>2. QED BY <2>1, <1>a
<1>6. CASE Fire
  BY <1>6, <1>c DEF Fire
<1>7. CASE Finish
  BY <1>7, <1>at, <1>a DEF Finish
<1>8. CASE SaleOpens
  <2>1. CASE UNCHANGED <<run, try>>
    BY <1>8, <2>1, <1>a DEF SaleOpens
  <2>2. CASE run.at = "armed" /\ Fired
    BY <1>8, <2>2, <1>c DEF SaleOpens
  <2>3. QED BY <1>8, <2>1, <2>2 DEF SaleOpens
<1>9. ASSUME NEW tx \in Txs, NEW e \in Endpoints, Answered(tx, e) PROVE RaceInv'
  <2>1. Verdict(tx) \in {"ok", "known", "error"}
    BY DEF Verdict
  <2>2. QED BY <1>9, <1>d, <2>1 DEF Answered
<1>10. ASSUME NEW tx \in Txs, NEW e \in Endpoints, TimesOut(tx, e) PROVE RaceInv'
  BY <1>10, <1>d DEF TimesOut
<1>11. ASSUME NEW tx \in Txs, NEW e \in Endpoints, BrokenOff(tx, e) \/ ArrivesLate(tx, e) PROVE RaceInv'
  BY <1>11, <1>e DEF BrokenOff, ArrivesLate
<1>12. ASSUME NEW w \in Wallets, Mine(w) \/ Other(w) PROVE RaceInv'
  BY <1>12, <1>a DEF Mine, Other
<1>13. CASE Tick
  BY <1>13, <1>a DEF Tick
<1>14. CASE UNCHANGED vars
  BY <1>14, <1>a DEF vars
<1> QED
  BY <1>1, <1>2, <1>3, <1>4, <1>5, <1>6, <1>7, <1>8, <1>9, <1>10, <1>11, <1>12, <1>13, <1>14
     DEF Next, Prepare, Request

(* The state of a run keeps its types, and a race is told exactly when one   *)
(* of its requests succeeded or none is outstanding.                         *)
THEOREM TypeCorrect == Spec => []TypeOK
<1>1. TypeInv /\ RaceInv => TypeOK
  <2> SUFFICES ASSUME TypeInv, RaceInv PROVE TypeOK
    OBVIOUS
  <2>1. ASSUME NEW tx \in Txs
        PROVE  race[tx].told # "none" <=>
          \/ \E e \in Endpoints : try[tx][e] = "ok"
          \/ \A e \in Endpoints : try[tx][e] \notin {"unsent", "flying", "broken"}
    BY DEF RaceInv, RaceGood
  <2>2. QED BY <2>1 DEF TypeInv, RaceInv, TypeOK
<1>2. QED BY TypeInit, RaceInit, TypeStep, RaceStep, <1>1, PTL DEF Spec

(* Whatever the endpoints answer, in any order and however many there are,   *)
(* raceSubmit never reports a transaction rejected that one of them          *)
(* acknowledged (rpc.ts:281).                                                *)
THEOREM AckedSafe == Spec => []AckedIsAccepted
<1>1. RaceInv => AckedIsAccepted
  BY DEF RaceInv, RaceGood, AckedIsAccepted
<1>2. QED BY TypeInit, RaceInit, TypeStep, RaceStep, <1>1, PTL DEF Spec

----------------------------------------------------------------------------
(* Where the entries of a ledger come from: a transaction of this run was    *)
(* taken when its nonce was next, so it stands at the place of its nonce.    *)
Primed(w) == run.nonce[w] # Unprimed
Entry(w, i) ==
    ledger[w][i] # Foreign =>
        ledger[w][i][1] = w /\ Primed(w) /\ Nonce(ledger[w][i]) = i - 1

(* What AcceptedArrived rests on: nonces are read once and before anything   *)
(* is sent, and "known" or "accepted" was said of what the sequencer had, or *)
(* of a nonce already executed.                                              *)
ArrivedInv ==
    /\ \A w \in Wallets : Primed(w) => run.nonce[w] = run.seen[w]
    /\ run.at = "armed" => \A w \in Wallets : Primed(w)
    /\ \A tx \in Txs, e \in Endpoints : try[tx][e] # "unsent" => Primed(tx[1])
    /\ \A w \in Wallets : \A i \in 1..Len(ledger[w]) : Entry(w, i)
    /\ \A tx \in Txs : race[tx].first = "known" \/ race[tx].told = "accepted" =>
          Primed(tx[1]) /\ Old(tx)

(* Nothing is sent, said or taken when the program starts. *)
LEMMA ArrivedInit == Init => ArrivedInv
<1> SUFFICES ASSUME Init PROVE ArrivedInv
  OBVIOUS
<1>1. /\ \A w \in Wallets : ~Primed(w) /\ ledger[w] = <<>>
      /\ run.at = "preflight"
      /\ \A tx \in Txs, e \in Endpoints : try[tx][e] = "unsent"
      /\ \A tx \in Txs : race[tx].first = "none" /\ race[tx].told = "none"
  BY DEF Init, Primed
<1>2. \A w \in Wallets : 1..Len(ledger[w]) = {}
  BY <1>1
<1>. QED
  BY <1>1, <1>2 DEF ArrivedInv

(* The nonce of a primed wallet's transaction is a number. *)
LEMMA NonceType ==
    ASSUME TypeInv, NEW tx \in Txs, Primed(tx[1])
    PROVE  Nonce(tx) \in Nat /\ Nonce(tx) >= run.nonce[tx[1]]
<1>1. tx[1] \in Wallets /\ tx[2] \in 1..TxPerWallet /\ run.nonce[tx[1]] \in Nat
  BY DEF TypeInv, RunTypes, Txs, Primed
<1>. QED
  BY <1>1, BotRunAssumption DEF Nonce

(* Old news stays old: ledgers only grow and execution only advances.        *)
LEMMA OldKept ==
    ASSUME TypeInv, NEW tx \in Txs, Old(tx), Nonce(tx)' = Nonce(tx), Nonce(tx) \in Nat,
           \/ UNCHANGED ledger
           \/ \E v \in Wallets, x \in Txs \cup {Foreign} : Take(v, x),
           \/ UNCHANGED mined
           \/ \E v \in Wallets : mined' = [mined EXCEPT ![v] = @ + 1]
    PROVE  Old(tx)'
<1>0. tx[1] \in Wallets /\ ledger[tx[1]] \in Seq(Txs \cup {Foreign}) /\ mined[tx[1]] \in Nat
  BY DEF TypeInv, Txs
<1>1. \/ ledger'[tx[1]] = ledger[tx[1]]
      \/ \E x \in Txs \cup {Foreign} : ledger'[tx[1]] = Append(ledger[tx[1]], x)
  BY <1>0 DEF Take, TypeInv
<1>2. ASSUME NEW i \in 1..Len(ledger[tx[1]])
      PROVE  i \in 1..Len(ledger'[tx[1]]) /\ ledger'[tx[1]][i] = ledger[tx[1]][i]
  BY <1>0, <1>1
<1>3. mined'[tx[1]] \in Nat /\ mined'[tx[1]] >= mined[tx[1]]
  BY <1>0 DEF TypeInv
<1>4. CASE Taken(tx)
  BY <1>2, <1>4 DEF Taken, Old
<1>5. CASE Nonce(tx) < mined[tx[1]]
  BY <1>0, <1>3, <1>5 DEF Old
<1>. QED
  BY <1>4, <1>5 DEF Old

(* A transaction that was taken is old news. *)
LEMMA TakenIsOld ==
    ASSUME TypeInv, NEW tx \in Txs, Take(tx[1], tx)
    PROVE  Old(tx)'
<1>1. tx[1] \in Wallets /\ ledger[tx[1]] \in Seq(Txs \cup {Foreign})
  BY DEF TypeInv, Txs
<1>2. ledger'[tx[1]] = Append(ledger[tx[1]], tx)
  BY <1>1 DEF Take, TypeInv
<1>3. /\ Len(ledger'[tx[1]]) \in 1..Len(ledger'[tx[1]])
      /\ ledger'[tx[1]][Len(ledger'[tx[1]])] = tx
  BY <1>1, <1>2
<1>. QED
  BY <1>3 DEF Old, Taken

(* What a ledger takes keeps its entries at the place of their nonces.       *)
LEMMA EntriesKept ==
    ASSUME TypeInv, ArrivedInv, UNCHANGED run,
           NEW v \in Wallets, NEW x \in Txs \cup {Foreign}, Take(v, x),
           x # Foreign => x[1] = v /\ Primed(v) /\ Fresh(x)
    PROVE  \A w \in Wallets : \A i \in 1..Len(ledger'[w]) : Entry(w, i)'
<1> SUFFICES ASSUME NEW w \in Wallets, NEW i \in 1..Len(ledger'[w])
             PROVE  Entry(w, i)'
  OBVIOUS
<1>0. /\ ledger[w] \in Seq(Txs \cup {Foreign}) /\ ledger[v] \in Seq(Txs \cup {Foreign})
      /\ Len(ledger[v]) \in Nat
  BY DEF TypeInv
<1>1. ledger' = [ledger EXCEPT ![v] = Append(ledger[v], x)]
  BY DEF Take
<1>2. CASE i \in 1..Len(ledger[w])
  <2>1. ledger'[w][i] = ledger[w][i]
    BY <1>0, <1>1, <1>2 DEF TypeInv
  <2>. QED
    BY <1>2, <2>1 DEF ArrivedInv, Entry, Primed, Nonce
<1>3. CASE i \notin 1..Len(ledger[w])
  <2>1. w = v /\ i = Len(ledger[v]) + 1 /\ ledger'[v][i] = x
    BY <1>0, <1>1, <1>3 DEF TypeInv
  <2>2. x # Foreign => Nonce(x) = Len(ledger[v])
    BY DEF Fresh
  <2>3. x # Foreign => Nonce(x) = i - 1
    BY <1>0, <2>1, <2>2
  <2>. QED
    BY <2>1, <2>3 DEF Entry, Primed, Nonce
<1>. QED
  BY <1>2, <1>3

(* A request that arrives: its transaction is taken in its place or nothing  *)
(* is.                                                                       *)
LEMMA ArrivalKeeps ==
    ASSUME TypeInv, ArrivedInv, UNCHANGED run, NEW tx \in Txs, Primed(tx[1]), Arrival(tx)
    PROVE  /\ \A w \in Wallets : \A i \in 1..Len(ledger'[w]) : Entry(w, i)'
           /\ UNCHANGED ledger \/ \E v \in Wallets, x \in Txs \cup {Foreign} : Take(v, x)
           /\ Fresh(tx) => Old(tx)'
<1>1. tx[1] \in Wallets /\ tx # Foreign
  BY BotRunAssumption DEF Txs
<1>2. CASE Fresh(tx)
  <2>1. Take(tx[1], tx)
    BY <1>2 DEF Arrival
  <2>. QED
    BY <1>1, <1>2, <2>1, EntriesKept, TakenIsOld
<1>3. CASE ~Fresh(tx)
  BY <1>3 DEF Arrival, ArrivedInv, Entry, Primed, Nonce
<1>. QED
  BY <1>2, <1>3

(* A nonce once read is not read again. *)
LEMMA PrimeKeeps ==
    ASSUME TypeInv, RaceInv, ArrivedInv, NEW w \in Wallets, Prime(w)
    PROVE  ArrivedInv'
<1>1. /\ run.at = "prime" /\ ~Primed(w) /\ UNCHANGED <<try, race, ledger, mined>>
      /\ run' = [run EXCEPT !.nonce[w] = Len(ledger[w]), !.seen[w] = Len(ledger[w])]
  BY DEF Prime, Primed, PendingNonce, World
<1>2. Len(ledger[w]) \in Nat
  BY DEF TypeInv
<1>3. /\ run'.at = "prime" /\ run'.nonce[w] = Len(ledger[w]) /\ run'.seen[w] = Len(ledger[w])
      /\ \A v \in Wallets \ {w} : run'.nonce[v] = run.nonce[v] /\ run'.seen[v] = run.seen[v]
  BY <1>1, <1>2 DEF TypeInv, RunTypes
<1>4. \A v \in Wallets : Primed(v) => v # w /\ run'.nonce[v] = run.nonce[v]
  BY <1>1, <1>3
<1>5. \A v \in Wallets : Primed(v) => Primed(v)'
  BY <1>4 DEF Primed
<1>6. \A v \in Wallets : Primed(v)' => run'.nonce[v] = run'.seen[v]
  BY <1>3 DEF ArrivedInv, Primed
<1>7. ASSUME NEW v \in Wallets, NEW i \in 1..Len(ledger[v]) PROVE Entry(v, i)'
  <2>1. Entry(v, i)
    BY DEF ArrivedInv
  <2>. QED
    BY <1>1, <1>4, <1>5, <2>1 DEF Entry, Nonce
<1>8. ASSUME NEW tx \in Txs, race[tx].first = "known" \/ race[tx].told = "accepted"
      PROVE  Primed(tx[1])' /\ Old(tx)'
  <2>1. tx[1] \in Wallets /\ Primed(tx[1]) /\ Old(tx)
    BY <1>8 DEF ArrivedInv, Txs
  <2>2. Nonce(tx)' = Nonce(tx)
    BY <1>4, <2>1 DEF Nonce
  <2>. QED
    BY <1>1, <1>5, <2>1, <2>2 DEF Old, Taken
<1>9. \A tx \in Txs, e \in Endpoints : try[tx][e] = "unsent"
  BY <1>1 DEF RaceInv
<1>. QED
  BY <1>1, <1>3, <1>6, <1>7, <1>8, <1>9 DEF ArrivedInv

(* Every step keeps it. *)
LEMMA ArrivedStep == TypeInv /\ RaceInv /\ ArrivedInv /\ [Next]_vars => ArrivedInv'
<1> SUFFICES ASSUME TypeInv, RaceInv, ArrivedInv, [Next]_vars PROVE ArrivedInv'
  OBVIOUS
(* What happens to requests and ledgers while the run waits. *)
<1>a. ASSUME UNCHANGED run,
             \/ UNCHANGED ledger
             \/ \E v \in Wallets, x \in Txs \cup {Foreign} : Take(v, x),
             \/ UNCHANGED mined
             \/ \E v \in Wallets : mined' = [mined EXCEPT ![v] = @ + 1],
             \A w \in Wallets : \A i \in 1..Len(ledger'[w]) : Entry(w, i)',
             \A tx \in Txs, e \in Endpoints : try'[tx][e] # "unsent" => Primed(tx[1]),
             \A tx \in Txs : race'[tx].first = "known" \/ race'[tx].told = "accepted" =>
                Primed(tx[1]) /\ (Old(tx) \/ Old(tx)')
      PROVE  ArrivedInv'
  <2>1. \A w \in Wallets : Primed(w)' <=> Primed(w)
    BY <1>a DEF Primed
  <2>2. ASSUME NEW tx \in Txs, race'[tx].first = "known" \/ race'[tx].told = "accepted"
        PROVE  Primed(tx[1])' /\ Old(tx)'
    <3>1. Primed(tx[1]) /\ (Old(tx) \/ Old(tx)') /\ tx[1] \in Wallets
      BY <1>a, <2>2 DEF Txs
    <3>2. Nonce(tx) \in Nat /\ Nonce(tx)' = Nonce(tx)
      BY <1>a, <3>1, NonceType DEF Nonce
    <3>. QED
      BY <1>a, <2>1, <3>1, <3>2, OldKept
  <2>3. \A w \in Wallets : Primed(w)' => run'.nonce[w] = run'.seen[w]
    BY <1>a, <2>1 DEF ArrivedInv
  <2>4. run'.at = "armed" => \A w \in Wallets : Primed(w)'
    BY <1>a, <2>1 DEF ArrivedInv
  <2>5. \A tx \in Txs, e \in Endpoints : try'[tx][e] # "unsent" => Primed(tx[1])'
    BY <1>a, <2>1 DEF Txs
  <2>. QED
    BY <1>a, <2>2, <2>3, <2>4, <2>5 DEF ArrivedInv
(* The run moves on, and may fire once every nonce was read. *)
<1>b. ASSUME NEW at, run' = [run EXCEPT !.at = at], UNCHANGED <<race, ledger, mined>>,
             at = "armed" => \A w \in Wallets : Primed(w),
             UNCHANGED try \/ \A w \in Wallets : Primed(w)
      PROVE  ArrivedInv'
  <2>1. run'.at = at /\ run'.nonce = run.nonce /\ run'.seen = run.seen
    BY <1>b DEF TypeInv, RunTypes
  <2>2. \A w : Primed(w)' <=> Primed(w)
    BY <2>1 DEF Primed
  <2>3. \A tx : (Nonce(tx)' = Nonce(tx)) /\ (Old(tx)' <=> Old(tx))
    BY <1>b, <2>1 DEF Nonce, Old, Taken
  <2>4. \A w \in Wallets : \A i \in 1..Len(ledger'[w]) : Entry(w, i)'
    BY <1>b, <2>1, <2>2 DEF Entry, Nonce, ArrivedInv
  <2>5. \A tx \in Txs : tx[1] \in Wallets
    BY DEF Txs
  <2>. QED
    BY <1>b, <2>1, <2>2, <2>3, <2>4, <2>5 DEF ArrivedInv
<1>c. \A w \in Wallets : \A i \in 1..Len(ledger[w]) : Entry(w, i)
  BY DEF ArrivedInv
<1>d. ASSUME UNCHANGED <<run, ledger>>
      PROVE  \A w \in Wallets : \A i \in 1..Len(ledger'[w]) : Entry(w, i)'
  BY <1>c, <1>d DEF Entry, Nonce, Primed
<1>1. CASE Throw
  BY <1>1, <1>b DEF Throw, World
<1>2. CASE Hang
  BY <1>2, <1>b DEF Hang, World
<1>3. CASE Preflight
  BY <1>3, <1>b DEF Preflight, World
<1>4. CASE Presign
  <2>1. /\ run' = [run EXCEPT !.at = IF run.dry THEN "dry" ELSE "armed"]
        /\ UNCHANGED <<try, race, ledger, mined>>
        /\ \A w \in Wallets : Primed(w)
    BY <1>4 DEF Presign, World, Primed
  <2>. QED
    BY <2>1, <1>b
<1>5. ASSUME NEW w \in Wallets, Prime(w) PROVE ArrivedInv'
  BY <1>5, PrimeKeeps
<1>6. ASSUME Fired, run.at = "armed", UNCHANGED <<race, ledger, mined>> PROVE ArrivedInv'
  <2>1. \A w \in Wallets : Primed(w)
    BY <1>6 DEF ArrivedInv
  <2>. QED
    BY <1>6, <2>1, <1>b DEF Fired
<1>7. CASE Fire
  BY <1>7, <1>6 DEF Fire, World
<1>8. CASE Finish
  BY <1>8, <1>b DEF Finish, World
<1>9. CASE UNCHANGED <<run, try, race, ledger, mined>>
  BY <1>9, <1>a, <1>d DEF ArrivedInv
<1>10. CASE SaleOpens
  BY <1>10, <1>6, <1>9 DEF SaleOpens
<1>11. CASE Tick \/ UNCHANGED vars
  BY <1>11, <1>9 DEF Tick, vars
<1>12. ASSUME NEW w \in Wallets, Mine(w) PROVE ArrivedInv'
  <2>1. mined' = [mined EXCEPT ![w] = @ + 1] /\ UNCHANGED <<run, try, race, ledger>>
    BY <1>12 DEF Mine
  <2>. QED
    BY <2>1, <1>a, <1>d DEF ArrivedInv
<1>13. ASSUME NEW w \in Wallets, Other(w) PROVE ArrivedInv'
  <2>1. Take(w, Foreign) /\ UNCHANGED <<run, try, race, mined>>
    BY <1>13 DEF Other
  <2>2. \A v \in Wallets : \A i \in 1..Len(ledger'[v]) : Entry(v, i)'
    BY <2>1, EntriesKept
  <2>. QED
    BY <2>1, <2>2, <1>a DEF ArrivedInv
(* A request that is answered, late or not at all. *)
<1>t. ASSUME NEW tx \in Txs, NEW e \in Endpoints, NEW status, try[tx][e] # "unsent",
             try' = [try EXCEPT ![tx][e] = status]
      PROVE  \A ux \in Txs, f \in Endpoints : try'[ux][f] # "unsent" => Primed(ux[1])
  <2>1. try \in [Txs -> [Endpoints -> Requests]]
    BY DEF RaceInv
  <2>2. \A ux \in Txs, f \in Endpoints : <<ux, f>> # <<tx, e>> => try'[ux][f] = try[ux][f]
    BY <1>t, <2>1
  <2>. QED
    BY <1>t, <2>2 DEF ArrivedInv
<1>14. ASSUME NEW tx \in Txs, NEW e \in Endpoints, BrokenOff(tx, e) \/ ArrivesLate(tx, e)
       PROVE  ArrivedInv'
  <2>1. /\ Primed(tx[1]) /\ Arrival(tx) /\ UNCHANGED <<run, race, mined>>
        /\ try[tx][e] # "unsent"
    BY <1>14 DEF BrokenOff, ArrivesLate, ArrivedInv
  <2>2. \A ux \in Txs, f \in Endpoints : try'[ux][f] # "unsent" => Primed(ux[1])
    BY <1>14, <2>1, <1>t DEF BrokenOff, ArrivesLate
  <2>. QED
    BY <2>1, <2>2, <1>a, ArrivalKeeps DEF ArrivedInv
<1>s. ASSUME NEW tx \in Txs, NEW e \in Endpoints, NEW status, NEW answer,
             Settle(tx, e, status, answer), try[tx][e] = "flying",
             answer \in {"ok", "known"} => Old(tx) \/ Old(tx)'
      PROVE  \A ux \in Txs : race'[ux].first = "known" \/ race'[ux].told = "accepted" =>
                Primed(ux[1]) /\ (Old(ux) \/ Old(ux)')
  <2>1. Primed(tx[1])
    BY <1>s DEF ArrivedInv
  <2> DEFINE q == Resolved(try[tx], race[tx], tx, e, answer)
  <2>2. race' = [race EXCEPT ![tx] = q]
    BY <1>s DEF Settle, Resolved, RaceInv
  <2>3. race \in [Txs -> Races]
    BY DEF RaceInv
  <2>4. q.first = "known" => answer = "known" \/ race[tx].first = "known"
    BY DEF Resolved
  <2>5. q.told = "accepted" =>
           answer = "ok" \/ answer = "known" \/ race[tx].first = "known" \/ race[tx].told = "accepted"
    BY DEF Resolved, Told
  <2> HIDE DEF q
  <2>6. ASSUME NEW ux \in Txs, race'[ux].first = "known" \/ race'[ux].told = "accepted"
        PROVE  Primed(ux[1]) /\ (Old(ux) \/ Old(ux)')
    <3>1. CASE ux = tx
      <4>1. race'[tx] = q
        BY <2>2, <2>3
      <4>. QED
        BY <1>s, <2>1, <2>4, <2>5, <2>6, <3>1, <4>1 DEF ArrivedInv
    <3>2. CASE ux # tx
      <4>1. race'[ux] = race[ux]
        BY <2>2, <2>3, <3>2
      <4>. QED
        BY <2>6, <4>1 DEF ArrivedInv
    <3>. QED
      BY <3>1, <3>2
  <2>. QED
    BY <2>6
<1>15. ASSUME NEW tx \in Txs, NEW e \in Endpoints, TimesOut(tx, e) PROVE ArrivedInv'
  <2>1. /\ UNCHANGED <<run, ledger, mined>> /\ try[tx][e] = "flying"
        /\ Settle(tx, e, "adrift", "error")
        /\ try' = [try EXCEPT ![tx][e] = "adrift"]
    BY <1>15 DEF TimesOut, World, Settle
  <2>2. \A ux \in Txs, f \in Endpoints : try'[ux][f] # "unsent" => Primed(ux[1])
    BY <2>1, <1>t
  <2>3. \A ux \in Txs : race'[ux].first = "known" \/ race'[ux].told = "accepted" =>
                Primed(ux[1]) /\ (Old(ux) \/ Old(ux)')
    BY <2>1, <1>s
  <2>. QED
    BY <2>1, <2>2, <2>3, <1>a, <1>d
<1>16. ASSUME NEW tx \in Txs, NEW e \in Endpoints, Answered(tx, e) PROVE ArrivedInv'
  <2>1. /\ UNCHANGED <<run, mined>> /\ try[tx][e] = "flying" /\ Arrival(tx) /\ Primed(tx[1])
    BY <1>16 DEF Answered, ArrivedInv
  <2>2. PICK status \in {"ok", "failed"}, answer \in {"ok", "known", "error"} :
           Settle(tx, e, status, answer) /\ answer \in {Verdict(tx), "error"}
    <3>1. Verdict(tx) \in {"ok", "known", "error"}
      BY DEF Verdict
    <3>. QED
      BY <1>16, <3>1 DEF Answered
  <2>3. answer \in {"ok", "known"} => Old(tx) \/ Old(tx)'
    BY <2>1, <2>2, ArrivalKeeps DEF Verdict
  <2>4. \A ux \in Txs, f \in Endpoints : try'[ux][f] # "unsent" => Primed(ux[1])
    BY <2>1, <2>2, <1>t DEF Settle
  <2>5. \A ux \in Txs : race'[ux].first = "known" \/ race'[ux].told = "accepted" =>
                Primed(ux[1]) /\ (Old(ux) \/ Old(ux)')
    BY <2>1, <2>2, <2>3, <1>s
  <2>. QED
    BY <2>1, <2>4, <2>5, <1>a, ArrivalKeeps
<1> QED
  BY <1>1, <1>2, <1>3, <1>4, <1>5, <1>7, <1>8, <1>10, <1>11, <1>12, <1>13, <1>14, <1>15, <1>16
     DEF Next, Prepare, Request

(* Accepted means arrived, when nobody else used the wallet since its nonce  *)
(* was read: a nonce that is executed is held by the transaction at its      *)
(* place, and two transactions of one run never share a nonce (submit.ts:30).*)
THEOREM AcceptedSafe == Spec => []AcceptedArrived
<1>1. TypeInv /\ ArrivedInv => AcceptedArrived
  <2> SUFFICES ASSUME TypeInv, ArrivedInv, NEW tx \in Txs, race[tx].told = "accepted",
                      \A i \in 1..Len(ledger[tx[1]]) :
                         ledger[tx[1]][i] = Foreign => i <= run.seen[tx[1]]
               PROVE  Taken(tx)
    BY DEF AcceptedArrived
  <2> DEFINE w == tx[1]
             i == Nonce(tx) + 1
             other == ledger[w][i]
  <2>1. w \in Wallets /\ Primed(w) /\ Old(tx)
    BY DEF ArrivedInv, Txs
  <2>2. CASE Nonce(tx) < mined[w]
    <3>1. /\ Nonce(tx) \in Nat /\ Nonce(tx) >= run.seen[w] /\ run.seen[w] \in Nat
          /\ mined[w] \in Nat /\ mined[w] <= Len(ledger[w]) /\ Len(ledger[w]) \in Nat
          /\ ledger[w] \in Seq(Txs \cup {Foreign})
      BY <2>1, NonceType DEF TypeInv, ArrivedInv, RunTypes
    <3>2. i \in 1..Len(ledger[w]) /\ i > run.seen[w]
      BY <2>2, <3>1
    <3>3. other # Foreign /\ other \in Txs
      BY <3>1, <3>2
    <3>4. other[1] = w /\ Nonce(other) = Nonce(tx)
      BY <2>1, <3>1, <3>2, <3>3 DEF ArrivedInv, Entry
    <3>5. other[2] = tx[2]
      <4>1. other[2] \in Int /\ tx[2] \in Int /\ run.nonce[w] \in Int
        <5>1. other[2] \in 1..TxPerWallet /\ tx[2] \in 1..TxPerWallet
          BY <3>3 DEF Txs
        <5>2. run.nonce[w] \in Int
          BY <2>1, <3>1 DEF ArrivedInv
        <5>. QED
          BY <5>1, <5>2
      <4>2. run.nonce[w] + other[2] - 1 = run.nonce[w] + tx[2] - 1
        BY <3>4 DEF Nonce
      <4>. HIDE DEF other, w
      <4>. QED
        BY <4>1, <4>2
    <3>6. other = tx
      BY <3>3, <3>4, <3>5 DEF Txs
    <3>. QED
      BY <3>2, <3>6 DEF Taken
  <2>. QED
    BY <2>1, <2>2 DEF Old
<1>2. QED
  BY TypeInit, RaceInit, ArrivedInit, TypeStep, RaceStep, ArrivedStep, <1>1, PTL DEF Spec
=============================================================================
