-------------------------- MODULE AutopilotProofs --------------------------
(***************************************************************************)
(* The budget arguments of the autopilot, for every set of collections, fee *)
(* level, batch size and budget; and, at the end, the tracker that reports  *)
(* collections to it, for all thresholds and limits.                        *)
(***************************************************************************)
EXTENDS Autopilot, MintTracker, FiniteSetTheorems, TLAPS

(* What a batch costs at worst is a number of wei. *)
LEMMA WorstCaseType ==
    ASSUME NEW v \in Nat, NEW g \in Nat
    PROVE  v + g * FeePerGas \in Nat /\ WorstCase(v, g) \in Nat
BY AutopilotAssumption DEF WorstCase

(* A batch sent in part is worth no more than the batch. *)
LEMMA PartOfBatch ==
    ASSUME NEW p \in Nat, NEW s \in 0 .. NumTx
    PROVE  s * p \in Nat /\ s * p <= p * NumTx /\ (s + 1) * p = s * p + p
<1>1. s \in Nat /\ NumTx \in Nat /\ s <= NumTx
  BY AutopilotAssumption
<1>2. s * p <= NumTx * p
  BY <1>1
<1>. QED
  BY <1>1, <1>2

(* Counting one more submission of an unfinished batch. *)
LEMMA SentOneMore ==
    ASSUME job \in Jobs, MoreToSend
    PROVE  [job EXCEPT !.sent = @ + 1] \in Jobs
<1>1. job.sent + 1 \in 0 .. NumTx
  BY AutopilotAssumption DEF Jobs, MoreToSend
<1>. QED
  BY <1>1 DEF Jobs

(* A collection that ends, for whatever reason, leaves a well-typed state. *)
LEMMA EndJobType ==
    ASSUME TypeOK, EndJob
    PROVE  TypeOK'
<1>1. job' \in Jobs
  BY AutopilotAssumption DEF EndJob, Idle, Jobs, Steps
<1>2. busy' \in BOOLEAN
  BY DEF EndJob, Release
<1>. QED
  BY <1>1, <1>2, Zenon DEF TypeOK, EndJob

(* The walk's next step, and the locals it may start with.                  *)
LEMMA GotoType ==
    ASSUME TypeOK, NEW step \in Steps, Goto(step)
    PROVE  TypeOK'
<1>1. job' \in Jobs
  BY DEF TypeOK, Goto, Jobs
<1>. QED
  BY <1>1, Zenon DEF TypeOK, Goto

(* Every variable keeps its type, whatever order hot events, answers of the *)
(* chain and clock ticks come in.                                           *)
THEOREM TypeCorrect == Spec => []TypeOK
<1>1. Init => TypeOK
  <2> SUFFICES ASSUME Init PROVE TypeOK
    OBVIOUS
  <2>1. job \in Jobs
    BY AutopilotAssumption DEF Init, Idle, Jobs, Steps
  <2>2. /\ now \in Nat /\ spent \in Nat /\ exposed \in Nat /\ mintedAt \in Seq(Nat)
        /\ exposedOn \in [Contracts -> Nat]
        /\ firstSent \in [Contracts -> Nat \cup {Never}]
    BY DEF Init
  <2>3. busy \in BOOLEAN /\ handled \subseteq Contracts
    BY DEF Init
  <2>. QED
    BY <2>1, <2>2, <2>3, Zenon DEF Init, TypeOK
<1>2. TypeOK /\ [Next]_vars => TypeOK'
  <2> SUFFICES ASSUME TypeOK, [Next]_vars PROVE TypeOK'
    OBVIOUS
  <2> USE AutopilotAssumption
  <2>1. ASSUME NEW c \in Contracts, NEW free \in BOOLEAN, NEW value \in Values,
               Handle(c, free, value)
        PROVE  TypeOK'
    <3>1. job' \in Jobs
      BY <2>1 DEF TypeOK, Handle, Steps, Jobs
    <3>2. busy' \in BOOLEAN /\ handled' \subseteq Contracts
      BY <2>1 DEF Handle, TypeOK
    <3>. QED
      BY <2>1, <3>1, <3>2, Zenon DEF TypeOK, Handle
  <2>2. CASE Probe
    BY <2>2, EndJobType, GotoType DEF Probe, Steps
  <2>3. CASE Estimate
    <3>1. ASSUME NEW gas \in GasLimits \cup {MaxGasLimit},
                 job' = [job EXCEPT !.step = "prime", !.gas = gas],
                 UNCHANGED <<config, now, spent, mintedAt, handled, busy,
                             exposed, exposedOn, firstSent>>
          PROVE  TypeOK'
      <4>1. job' \in Jobs
        BY <3>1 DEF TypeOK, Jobs, Steps
      <4>. QED
        BY <3>1, <4>1, Zenon DEF TypeOK
    <3>. QED
      BY <2>3, <3>1, EndJobType DEF Estimate
  <2>4. CASE Prime
    BY <2>4, EndJobType, GotoType DEF Prime, Steps
  <2>5. CASE SubmitOne
    <3>a. job \in Jobs
      BY Zenon DEF TypeOK
    <3>1. PerTx \in Nat
      <4>1. job.value \in Nat /\ job.gas \in Nat
        BY <3>a DEF Jobs
      <4>. QED
        BY <4>1, WorstCaseType DEF PerTx
    <3>2. job' \in Jobs
      BY <3>a, <2>5, SentOneMore DEF SubmitOne
    <3>0. /\ now \in Nat /\ exposed \in Nat /\ exposedOn \in [Contracts -> Nat]
          /\ firstSent \in [Contracts -> Nat \cup {Never}]
      BY Zenon DEF TypeOK
    <3>3. firstSent' \in [Contracts -> Nat \cup {Never}]
      <4>1. CASE UNCHANGED <<exposed, exposedOn, firstSent>>
        BY <4>1, <3>0
      <4>2. CASE firstSent' = [firstSent EXCEPT ![job.contract] = IF @ = Never THEN now ELSE @]
        BY <4>2, <3>0
      <4>. QED
        BY <2>5, <4>1, <4>2 DEF SubmitOne
    <3>4. exposed' \in Nat /\ exposedOn' \in [Contracts -> Nat]
      <4>1. CASE UNCHANGED <<exposed, exposedOn, firstSent>>
        BY <4>1, <3>0
      <4>2. CASE exposed' = exposed + PerTx /\
                 exposedOn' = [exposedOn EXCEPT ![job.contract] = @ + PerTx]
        <5>1. exposedOn[job.contract] + PerTx \in Nat \/ job.contract \notin Contracts
          BY <3>0, <3>1
        <5>2. exposedOn' \in [Contracts -> Nat]
          BY <4>2, <3>0, <5>1
        <5>. QED
          BY <4>2, <3>0, <3>1, <5>2
      <4>. QED
        BY <2>5, <4>1, <4>2 DEF SubmitOne
    <3>. QED
      BY <2>5, <3>2, <3>3, <3>4, Zenon DEF TypeOK, SubmitOne
  <2>6. CASE Book
    <3>1. WorstCase(job.value, job.gas) \in Nat
      BY WorstCaseType DEF TypeOK, Jobs
    <3>2. mintedAt' \in Seq(Nat) /\ spent' \in Nat
      BY <2>6, <3>1 DEF TypeOK, Book
    <3>3. job' \in Jobs
      BY <2>6 DEF TypeOK, Book, Jobs, Steps
    <3>. QED
      BY <2>6, <3>2, <3>3, Zenon DEF TypeOK, Book
  <2>7. CASE Receipts
    BY <2>7, EndJobType DEF Receipts
  <2>8. CASE Tick
    BY <2>8 DEF TypeOK, Tick
  <2>9. CASE UNCHANGED vars
    BY <2>9 DEF TypeOK, vars
  <2>. QED
    BY <2>1, <2>2, <2>3, <2>4, <2>5, <2>6, <2>7, <2>8, <2>9 DEF Next, JobStep
<1>. QED
  BY <1>1, <1>2, PTL DEF Spec

----------------------------------------------------------------------------
(* Busy exactly while a collection is being walked through, and that        *)
(* collection is in `handled`.                                              *)
LEMMA BusyInvHolds == Spec => []BusyInv
<1>1. Init => BusyInv
  BY DEF Init, BusyInv, Idle
<1>2. TypeOK /\ BusyInv /\ [Next]_vars => BusyInv'
  <2> SUFFICES ASSUME TypeOK, BusyInv, [Next]_vars PROVE BusyInv'
    OBVIOUS
  <2>0. job \in Jobs /\ busy \in BOOLEAN
    BY Zenon DEF TypeOK
  <2>1. ASSUME NEW c \in Contracts, NEW free \in BOOLEAN, NEW value \in Values,
               Handle(c, free, value)
        PROVE  BusyInv'
    BY <2>1 DEF BusyInv, Handle
  <2>2. ASSUME EndJob PROVE BusyInv'
    BY <2>2 DEF BusyInv, EndJob, Release, Idle
  <2>3. ASSUME job' \in Jobs, job'.step # "idle", job.step # "idle",
               job'.contract = job.contract, UNCHANGED <<busy, handled>>
        PROVE  BusyInv'
    BY <2>3 DEF BusyInv
  <2>4. ASSUME NEW step \in Steps \ {"idle"}, Goto(step), job.step # "idle"
        PROVE  BusyInv'
    <3>1. job'.step = step /\ job'.contract = job.contract /\ job' \in Jobs
      BY <2>4, <2>0 DEF Goto, Jobs
    <3>. QED
      BY <2>3, <2>4, <3>1 DEF Goto
  <2>5. CASE Probe
    BY <2>5, <2>2, <2>4 DEF Probe, Steps
  <2>6. CASE Estimate
    <3>1. ASSUME NEW gas \in GasLimits \cup {MaxGasLimit},
                 job.step = "estimate",
                 job' = [job EXCEPT !.step = "prime", !.gas = gas],
                 UNCHANGED <<config, now, spent, mintedAt, handled, busy,
                             exposed, exposedOn, firstSent>>
          PROVE  BusyInv'
      <4>1. job'.step = "prime" /\ job'.contract = job.contract /\ job' \in Jobs
        BY <3>1, <2>0, AutopilotAssumption DEF Jobs, Steps
      <4>. QED
        BY <3>1, <4>1, <2>3
    <3>. QED
      BY <2>6, <3>1, <2>2 DEF Estimate
  <2>7. CASE Prime
    BY <2>7, <2>2, <2>4 DEF Prime, Steps
  <2>8. CASE SubmitOne
    <3>1. job' \in Jobs
      BY <2>8, <2>0, SentOneMore DEF SubmitOne
    <3>2. job'.step = "submit" /\ job'.contract = job.contract
      BY <2>8, <2>0 DEF SubmitOne, Jobs
    <3>. QED
      BY <2>8, <3>1, <3>2, <2>3 DEF SubmitOne
  <2>9. CASE Book
    <3>1. job'.step = "receipts" /\ job'.contract = job.contract /\ job' \in Jobs
      BY <2>9, <2>0 DEF Book, Jobs, Steps
    <3>. QED
      BY <2>9, <3>1, <2>3 DEF Book
  <2>10. CASE Receipts
    BY <2>10, <2>2 DEF Receipts
  <2>11. CASE Tick
    BY <2>11 DEF Tick, BusyInv
  <2>12. CASE UNCHANGED vars
    BY <2>12 DEF vars, BusyInv
  <2>. QED
    BY <2>1, <2>5, <2>6, <2>7, <2>8, <2>9, <2>10, <2>11, <2>12 DEF Next, JobStep
<1>. QED
  BY <1>1, <1>2, TypeCorrect, PTL DEF Spec

(* What the running batch is worth, sent so far and in whole. *)
LEMMA BatchWorth ==
    ASSUME TypeOK
    PROVE  /\ PerTx \in Nat /\ WorstCase(job.value, job.gas) \in Nat
           /\ job.sent * PerTx \in Nat
           /\ job.sent * PerTx <= WorstCase(job.value, job.gas)
           /\ (job.sent + 1) * PerTx = job.sent * PerTx + PerTx
<1>1. job.value \in Nat /\ job.gas \in Nat /\ job.sent \in 0 .. NumTx
  BY DEF TypeOK, Jobs
<1>2. /\ PerTx \in Nat /\ WorstCase(job.value, job.gas) \in Nat
      /\ WorstCase(job.value, job.gas) = PerTx * NumTx
  BY <1>1, WorstCaseType DEF PerTx, WorstCase
<1>. QED
  BY <1>1, <1>2, PartOfBatch

(* BudgetInv is inductive relative to TypeOK and BusyInv: the budget check  *)
(* reserves the whole batch, submissions only draw on that reservation, and *)
(* booking turns it into spent money.                                       *)
LEMMA BudgetInvHolds == Spec => []BudgetInv
<1>1. Init => BudgetInv
  BY AutopilotAssumption DEF Init, BudgetInv, Idle, InFlight, Reserved
<1>2. TypeOK /\ BusyInv /\ BudgetInv /\ [Next]_vars => BudgetInv'
  <2> SUFFICES ASSUME TypeOK, BusyInv, BudgetInv, [Next]_vars PROVE BudgetInv'
    OBVIOUS
  <2>0. /\ job \in Jobs /\ spent \in Nat /\ exposed \in Nat /\ TotalBudget \in Nat
        /\ exposed <= spent + InFlight
        /\ spent + Reserved <= TotalBudget
    BY AutopilotAssumption DEF TypeOK, BudgetInv
  <2>1. ASSUME NEW c \in Contracts, NEW free \in BOOLEAN, NEW value \in Values,
               Handle(c, free, value)
        PROVE  BudgetInv'
    <3>1. job.step = "idle" /\ job'.step = "probe"
      BY <2>1 DEF Handle, BusyInv
    <3>. QED
      BY <2>1, <3>1, <2>0 DEF BudgetInv, Handle, InFlight, Reserved
  <2>2. ASSUME EndJob, job.step # "submit" PROVE BudgetInv'
    <3>1. Reserved \in Nat /\ InFlight = 0
      BY <2>2, BatchWorth DEF Reserved, InFlight
    <3>2. Reserved' = 0 /\ InFlight' = 0 /\ UNCHANGED <<spent, exposed>>
      BY <2>2 DEF EndJob, Idle, Reserved, InFlight
    <3>. QED
      BY <2>0, <3>1, <3>2 DEF BudgetInv
  <2>3. CASE Probe
    <3>1. CASE Goto("estimate")
      <4>1. job'.step = "estimate"
        BY <3>1, <2>0 DEF Goto, Jobs
      <4>. QED
        BY <2>3, <3>1, <4>1, <2>0 DEF BudgetInv, Probe, Goto, InFlight, Reserved
    <3>. QED
      BY <2>3, <2>2, <3>1 DEF Probe
  <2>4. CASE Estimate
    <3>1. ASSUME NEW gas \in GasLimits \cup {MaxGasLimit},
                 WithinBudgets(gas), job.step = "estimate",
                 job' = [job EXCEPT !.step = "prime", !.gas = gas],
                 UNCHANGED <<config, now, spent, mintedAt, handled, busy,
                             exposed, exposedOn, firstSent>>
          PROVE  BudgetInv'
      <4>1. job'.step = "prime" /\ job'.gas = gas /\ job'.value = job.value
        BY <3>1, <2>0 DEF Jobs
      <4>2. WorstCase(job.value, gas) \in Nat
        <5>1. gas \in Nat /\ job.value \in Nat
          BY <2>0, AutopilotAssumption DEF Jobs
        <5>. QED
          BY <5>1, WorstCaseType
      <4>3. Reserved' = WorstCase(job.value, gas) /\ InFlight' = 0 /\ InFlight = 0
        BY <4>1, <3>1 DEF Reserved, InFlight, WorstCase
      <4>4. spent + WorstCase(job.value, gas) <= TotalBudget
        BY <3>1, <4>2, <2>0 DEF WithinBudgets
      <4>. QED
        BY <3>1, <4>3, <4>4, <2>0 DEF BudgetInv
    <3>. QED
      BY <2>4, <2>2, <3>1 DEF Estimate
  <2>5. CASE Prime
    <3>1. CASE Goto("submit")
      <4>1. /\ job'.step = "submit" /\ job'.gas = job.gas /\ job'.value = job.value
            /\ job'.sent = job.sent
        BY <3>1, <2>0 DEF Goto, Jobs
      <4>2. /\ Reserved' = Reserved /\ InFlight = 0 /\ InFlight' = job.sent * PerTx
            /\ UNCHANGED <<spent, exposed>>
        BY <4>1, <2>5, <3>1 DEF Reserved, InFlight, WorstCase, Prime, PerTx, Goto
      <4>3. \A x \in Nat : exposed <= spent + 0 => exposed <= spent + x
        BY <2>0
      <4>. QED
        BY <4>2, <4>3, <2>0, BatchWorth DEF BudgetInv
    <3>. QED
      BY <2>5, <2>2, <3>1 DEF Prime
  <2>6. CASE SubmitOne
    <3>1. /\ job'.step = "submit" /\ job'.gas = job.gas /\ job'.value = job.value
          /\ job'.sent = job.sent + 1 /\ UNCHANGED spent
      BY <2>6, <2>0 DEF SubmitOne, Jobs
    <3>2. PerTx' = PerTx /\ Reserved' = Reserved
      BY <3>1, <2>6 DEF PerTx, Reserved, WorstCase, SubmitOne
    <3>3. InFlight = job.sent * PerTx /\ InFlight' = job.sent * PerTx + PerTx
      BY <3>1, <3>2, <2>6, BatchWorth DEF InFlight, SubmitOne
    <3>4. InFlight' = InFlight + PerTx /\ InFlight \in Nat /\ PerTx \in Nat
      BY <3>3, BatchWorth
    <3>5. exposed' = exposed \/ exposed' = exposed + PerTx
      BY <2>6 DEF SubmitOne
    <3>. QED
      BY <2>0, <3>1, <3>2, <3>4, <3>5 DEF BudgetInv
  <2>7. CASE Book
    <3>1. job'.step = "receipts" /\ job.step = "submit"
      BY <2>7, <2>0 DEF Book, Jobs
    <3>2. Reserved' = 0 /\ InFlight' = 0
      BY <3>1 DEF Reserved, InFlight
    <3>3. spent' = spent + Reserved /\ exposed' = exposed /\ InFlight <= Reserved
      BY <2>7, <3>1, BatchWorth DEF Book, Reserved, InFlight
    <3>4. Reserved \in Nat /\ InFlight \in Nat
      BY BatchWorth DEF Reserved, InFlight
    <3>. QED
      BY <2>0, <3>2, <3>3, <3>4 DEF BudgetInv
  <2>8. CASE Receipts
    BY <2>8, <2>2 DEF Receipts
  <2>9. CASE Tick
    BY <2>9 DEF BudgetInv, Tick, InFlight, Reserved, WorstCase, PerTx
  <2>10. CASE UNCHANGED vars
    BY <2>10 DEF BudgetInv, vars, InFlight, Reserved, WorstCase, PerTx
  <2>. QED
    BY <2>1, <2>3, <2>4, <2>5, <2>6, <2>7, <2>8, <2>9, <2>10 DEF Next, JobStep
<1>. QED
  BY <1>1, <1>2, TypeCorrect, BusyInvHolds, PTL DEF Spec

(* Everything the process may have put on chain stays inside                *)
(* AUTO_TOTAL_BUDGET.                                                       *)
THEOREM BudgetSafe == Spec => []BudgetHeld
<1>1. TypeOK /\ BudgetInv => BudgetHeld
  <2> SUFFICES ASSUME TypeOK, BudgetInv PROVE BudgetHeld
    OBVIOUS
  <2>1. InFlight <= Reserved /\ InFlight \in Nat /\ Reserved \in Nat
    BY BatchWorth DEF InFlight, Reserved
  <2>2. exposed \in Nat /\ spent \in Nat /\ TotalBudget \in Nat
    BY AutopilotAssumption DEF TypeOK
  <2>. QED
    BY <2>1, <2>2 DEF BudgetHeld, BudgetInv
<1>. QED
  BY <1>1, TypeCorrect, BudgetInvHolds, PTL

(* Until a collection is let in, and from then until its batch goes out,    *)
(* nothing is at risk on it; the batch going out is covered by the check it *)
(* passed, one submission at a time.                                        *)
LEMMA CollectionInvHolds == Spec => []CollectionInv
<1>1. Init => CollectionInv
  BY AutopilotAssumption DEF Init, CollectionInv, Idle
<1>2. TypeOK /\ BusyInv /\ CollectionInv /\ [Next]_vars => CollectionInv'
  <2> SUFFICES ASSUME TypeOK, BusyInv, CollectionInv, [Next]_vars PROVE CollectionInv'
    OBVIOUS
  <2>0. /\ job \in Jobs /\ handled \subseteq Contracts /\ CollectionBudget \in Nat
        /\ exposedOn \in [Contracts -> Nat]
    BY AutopilotAssumption, Zenon DEF TypeOK
  <2>1. ASSUME NEW c \in Contracts, NEW free \in BOOLEAN, NEW value \in Values,
               Handle(c, free, value)
        PROVE  CollectionInv'
    <3>1. job.step = "idle" /\ job'.step = "probe" /\ job'.contract = c
      BY <2>1 DEF Handle, BusyInv
    <3>2. exposedOn' = exposedOn /\ handled' = handled \cup {c} /\ c \notin handled
      BY <2>1 DEF Handle, Screen
    <3>. QED
      BY <3>1, <3>2 DEF CollectionInv
  <2>2. ASSUME EndJob, job.step # "submit" PROVE CollectionInv'
    <3>1. job'.step = "idle" /\ UNCHANGED <<exposedOn, handled>>
      BY <2>2 DEF EndJob, Idle
    <3>. QED
      BY <2>2, <3>1 DEF CollectionInv
  <2>3. CASE Probe
    <3>1. CASE Goto("estimate")
      <4>1. /\ job'.step = "estimate" /\ job'.contract = job.contract
            /\ UNCHANGED <<exposedOn, handled>>
        BY <3>1, <2>0 DEF Goto, Jobs
      <4>. QED
        BY <2>3, <4>1 DEF CollectionInv, Probe
    <3>. QED
      BY <2>3, <2>2, <3>1 DEF Probe
  <2>4. CASE Estimate
    <3>1. ASSUME NEW gas \in GasLimits \cup {MaxGasLimit},
                 WithinBudgets(gas), job.step = "estimate",
                 job' = [job EXCEPT !.step = "prime", !.gas = gas],
                 UNCHANGED <<config, now, spent, mintedAt, handled, busy,
                             exposed, exposedOn, firstSent>>
          PROVE  CollectionInv'
      <4>1. /\ job'.step = "prime" /\ job'.gas = gas /\ job'.value = job.value
            /\ job'.contract = job.contract
        BY <3>1, <2>0 DEF Jobs
      <4>2. WorstCase(job'.value, job'.gas) <= CollectionBudget
        BY <3>1, <4>1 DEF WithinBudgets
      <4>. QED
        BY <3>1, <4>1, <4>2 DEF CollectionInv, WorstCase
    <3>. QED
      BY <2>4, <2>2, <3>1 DEF Estimate
  <2>5. CASE Prime
    <3>1. CASE Goto("submit")
      <4>1. /\ job'.step = "submit" /\ job'.gas = job.gas /\ job'.value = job.value
            /\ job'.sent = job.sent /\ job'.contract = job.contract
            /\ UNCHANGED <<exposedOn, handled>>
        BY <3>1, <2>0 DEF Goto, Jobs
      <4>2. job.step = "prime" /\ job.contract \in handled
        BY <2>5 DEF Prime, BusyInv
      <4>3. exposedOn[job.contract] <= job.sent * PerTx
        BY <4>2, <2>0, BatchWorth DEF CollectionInv
      <4>4. PerTx' = PerTx
        BY <4>1 DEF PerTx
      <4>5. WorstCase(job'.value, job'.gas) <= CollectionBudget
        BY <4>1, <4>2 DEF CollectionInv
      <4>. QED
        BY <4>1, <4>2, <4>3, <4>4, <4>5 DEF CollectionInv, WorstCase
    <3>. QED
      BY <2>5, <2>2, <3>1 DEF Prime
  <2>6. CASE SubmitOne
    <3>1. /\ job.step = "submit" /\ job'.step = "submit" /\ job'.gas = job.gas
          /\ job'.value = job.value /\ job'.contract = job.contract
          /\ job'.sent = job.sent + 1 /\ UNCHANGED handled
          /\ job.contract \in handled
      BY <2>6, <2>0 DEF SubmitOne, Jobs, BusyInv
    <3>2. PerTx' = PerTx /\ WorstCase(job'.value, job'.gas) = WorstCase(job.value, job.gas)
      BY <3>1 DEF PerTx
    <3>3. job'.sent * PerTx' = job.sent * PerTx + PerTx
      BY <3>1, <3>2, BatchWorth
    <3>4. \A c \in Contracts : c # job.contract => exposedOn'[c] = exposedOn[c]
      BY <2>6, <2>0 DEF SubmitOne
    <3>5. \/ exposedOn'[job.contract] = exposedOn[job.contract]
          \/ exposedOn'[job.contract] = exposedOn[job.contract] + PerTx
      BY <2>6, <2>0, <3>1 DEF SubmitOne
    <3>6. exposedOn'[job'.contract] <= job'.sent * PerTx'
      <4>1. exposedOn[job.contract] \in Nat /\ exposedOn[job.contract] <= job.sent * PerTx
        BY <2>0, <3>1 DEF CollectionInv
      <4>. QED
        BY <4>1, <3>1, <3>3, <3>5, BatchWorth
    <3>7. WorstCase(job'.value, job'.gas) <= CollectionBudget
      BY <3>1, <3>2 DEF CollectionInv
    <3>. QED
      BY <3>1, <3>4, <3>6, <3>7, <2>0 DEF CollectionInv, WorstCase
  <2>7. CASE Book
    <3>1. /\ job.step = "submit" /\ job'.step = "receipts" /\ job'.contract = job.contract
          /\ UNCHANGED <<exposedOn, handled>> /\ job.contract \in handled
      BY <2>7, <2>0 DEF Book, Jobs, BusyInv
    <3>2. exposedOn[job.contract] <= CollectionBudget
      <4>1. /\ exposedOn[job.contract] \in Nat /\ exposedOn[job.contract] <= job.sent * PerTx
            /\ WorstCase(job.value, job.gas) <= CollectionBudget
        BY <2>0, <3>1 DEF CollectionInv
      <4>. QED
        BY <4>1, <2>0, BatchWorth
    <3>. QED
      BY <3>1, <3>2 DEF CollectionInv
  <2>8. CASE Receipts
    BY <2>8, <2>2 DEF Receipts
  <2>9. CASE Tick
    BY <2>9 DEF CollectionInv, Tick, WorstCase, PerTx
  <2>10. CASE UNCHANGED vars
    BY <2>10 DEF CollectionInv, vars, WorstCase, PerTx
  <2>. QED
    BY <2>1, <2>3, <2>4, <2>5, <2>6, <2>7, <2>8, <2>9, <2>10 DEF Next, JobStep
<1>. QED
  BY <1>1, <1>2, TypeCorrect, BusyInvHolds, PTL DEF Spec

(* However often a collection is reported, what it may have cost stays      *)
(* inside AUTO_PER_COLLECTION_BUDGET_ETH.                                   *)
THEOREM CollectionCapSafe == Spec => []CollectionCapHeld
<1>1. TypeOK /\ CollectionInv => CollectionCapHeld
  <2> SUFFICES ASSUME TypeOK, CollectionInv, NEW c \in Contracts
               PROVE  exposedOn[c] <= CollectionBudget
    BY DEF CollectionCapHeld
  <2>1. exposedOn[c] \in Nat /\ CollectionBudget \in Nat
    BY AutopilotAssumption DEF TypeOK
  <2>2. CASE job.step = "submit" /\ c = job.contract
    BY <2>1, <2>2, BatchWorth DEF CollectionInv
  <2>. QED
    BY <2>2 DEF CollectionInv
<1>. QED
  BY <1>1, TypeCorrect, CollectionInvHolds, PTL

----------------------------------------------------------------------------
(* The collections begun and the bookings made since an instant are finite  *)
(* sets: only admitted collections can have begun.                          *)
LEMMA CountsFinite ==
    ASSUME TypeOK, HourInv, NEW t \in Int
    PROVE  IsFiniteSet(BegunSince(t)) /\ IsFiniteSet(BookedSince(t))
<1>1. IsFiniteSet(BegunSince(t))
  <2>1. BegunSince(t) \in SUBSET handled
    BY DEF BegunSince, HourInv
  <2>. QED
    BY <2>1, FS_Subset DEF HourInv
<1>2. IsFiniteSet(BookedSince(t))
  <2>1. /\ Len(mintedAt) \in Int
        /\ BookedSince(t) \in SUBSET (1 .. Len(mintedAt))
    BY DEF BookedSince, TypeOK
  <2>2. IsFiniteSet(1 .. Len(mintedAt))
    BY <2>1, FS_Interval
  <2>. QED
    BY <2>1, <2>2, FS_Subset
<1>. QED
  BY <1>1, <1>2

(* A step at which no collection begins, none is booked and no time passes  *)
(* cannot tip the balance of the two counts.                                *)
LEMMA CountsKept ==
    ASSUME TypeOK, HourInv, UNCHANGED <<now, mintedAt>>,
           \A t \in Int : BegunSince(t)' \ Unbooked' \subseteq BegunSince(t) \ Unbooked
    PROVE  /\ Recent' = Recent
           /\ \A t \in (0 - Hour) .. now' :
                 Cardinality(BegunSince(t)' \ Unbooked') <= Cardinality(BookedSince(t)')
<1>1. Recent' = Recent
  BY DEF Recent
<1>2. ASSUME NEW t \in (0 - Hour) .. now'
      PROVE  Cardinality(BegunSince(t)' \ Unbooked') <= Cardinality(BookedSince(t)')
  <2>1. t \in Int /\ t \in (0 - Hour) .. now
    BY <1>2, AutopilotAssumption DEF TypeOK
  <2>2. BookedSince(t)' = BookedSince(t)
    BY DEF BookedSince
  <2>3. /\ IsFiniteSet(BegunSince(t) \ Unbooked)
        /\ Cardinality(BegunSince(t) \ Unbooked) \in Nat
    BY <2>1, CountsFinite, FS_Subset, FS_CardinalityType
  <2>4. /\ Cardinality(BegunSince(t)' \ Unbooked') \in Nat
        /\ Cardinality(BegunSince(t)' \ Unbooked') <= Cardinality(BegunSince(t) \ Unbooked)
    BY <2>1, <2>3, FS_Subset, FS_CardinalityType
  <2>5. Cardinality(BegunSince(t) \ Unbooked) <= Cardinality(BookedSince(t))
    BY <2>1 DEF HourInv
  <2>6. Cardinality(BookedSince(t)) \in Nat
    BY <2>1, CountsFinite, FS_CardinalityType
  <2>. QED
    BY <2>2, <2>3, <2>4, <2>5, <2>6
<1>. QED
  BY <1>1, <1>2

(* Booking: the collection that joins the left count was begun no later     *)
(* than the moment that joins the right one.                                *)
LEMMA BookKeepsCounts ==
    ASSUME TypeOK, BusyInv, HourInv, Book,
           NEW t \in (0 - Hour) .. now'
    PROVE  Cardinality(BegunSince(t)' \ Unbooked') <= Cardinality(BookedSince(t)')
<1>0. /\ now \in Nat /\ now' = now /\ t \in Int /\ t \in (0 - Hour) .. now
      /\ mintedAt \in Seq(Nat) /\ firstSent' = firstSent
  BY AutopilotAssumption DEF TypeOK, Book
<1>1. job \in Jobs /\ job.step = "submit" /\ job'.step = "receipts"
  BY Zenon DEF TypeOK, Book, Jobs
<1>2. Unbooked = {job.contract} /\ Unbooked' = {}
  BY <1>1 DEF Unbooked
<1>3. BegunSince(t)' = BegunSince(t)
  BY <1>0 DEF BegunSince
<1> DEFINE L == Len(mintedAt) + 1
           B == BegunSince(t) \ {job.contract}
<1>4. L \notin BookedSince(t) /\ BookedSince(t)' = BookedSince(t) \cup {L}
  <2>1. mintedAt' = Append(mintedAt, now)
    BY DEF Book
  <2>2. DOMAIN mintedAt' = DOMAIN mintedAt \cup {L} /\ L \notin DOMAIN mintedAt
    BY <1>0, <2>1
  <2>3. mintedAt'[L] = now /\ \A i \in DOMAIN mintedAt : mintedAt'[i] = mintedAt[i]
    BY <1>0, <2>1
  <2>. HIDE DEF L
  <2>. QED
    BY <1>0, <2>2, <2>3 DEF BookedSince
<1>5. IsFiniteSet(BegunSince(t)) /\ IsFiniteSet(BookedSince(t))
  BY <1>0, CountsFinite
<1>6. Cardinality(BookedSince(t)) \in Nat
      /\ Cardinality(BookedSince(t)') = Cardinality(BookedSince(t)) + 1
  BY <1>4, <1>5, FS_AddElement, FS_CardinalityType
<1>7. IsFiniteSet(B) /\ Cardinality(B) \in Nat
  BY <1>5, FS_Subset, FS_CardinalityType
<1>8. /\ IsFiniteSet(B \cup {job.contract})
      /\ Cardinality(B \cup {job.contract}) = Cardinality(B) + 1
  BY <1>7, FS_AddElement
<1>9. /\ Cardinality(BegunSince(t)) \in Nat
      /\ Cardinality(BegunSince(t)) <= Cardinality(B) + 1
  <2>1. BegunSince(t) \in SUBSET (B \cup {job.contract})
    OBVIOUS
  <2>2. Cardinality(BegunSince(t)) \in Nat
    BY <1>5, FS_CardinalityType
  <2>. HIDE DEF B
  <2>. QED
    BY <2>1, <2>2, <1>8, FS_Subset
<1>10. Cardinality(B) <= Cardinality(BookedSince(t))
  BY <1>0, <1>2 DEF HourInv
<1>11. BegunSince(t)' \ Unbooked' = BegunSince(t)
  BY <1>2, <1>3
<1>12. Cardinality(BegunSince(t)) <= Cardinality(BookedSince(t)')
  <2>. HIDE DEF B, L
  <2>. QED
    BY <1>6, <1>7, <1>9, <1>10
<1>. QED
  BY <1>11, <1>12

(* An hour's window only slides forward: with time alone passing, fewer     *)
(* bookings are recent, and nothing has begun at the instant just reached.  *)
LEMMA TickKeepsCounts ==
    ASSUME TypeOK, HourInv, Tick
    PROVE  /\ Recent' <= Recent /\ Recent \in Nat /\ Recent' \in Nat
           /\ \A t \in (0 - Hour) .. now' :
                 Cardinality(BegunSince(t)' \ Unbooked') <= Cardinality(BookedSince(t)')
<1>0. /\ now \in Nat /\ now' = now + 1 /\ Hour \in Nat /\ mintedAt \in Seq(Nat)
      /\ UNCHANGED <<mintedAt, firstSent, job>>
      /\ firstSent \in [Contracts -> Nat \cup {Never}]
  BY AutopilotAssumption DEF TypeOK, Tick
<1>1. Recent' <= Recent /\ Recent \in Nat /\ Recent' \in Nat
  <2>1. /\ Recent = Cardinality(BookedSince(now - Hour))
        /\ Recent' = Cardinality(BookedSince(now + 1 - Hour))
    BY <1>0 DEF Recent, BookedSince
  <2>2. BookedSince(now + 1 - Hour) \in SUBSET BookedSince(now - Hour)
    <3>1. \A i \in DOMAIN mintedAt : mintedAt[i] \in Nat
      BY <1>0
    <3>. QED
      BY <1>0, <3>1 DEF BookedSince
  <2>3. now - Hour \in Int /\ now + 1 - Hour \in Int
    BY <1>0
  <2>. QED
    BY <2>1, <2>2, <2>3, CountsFinite, FS_Subset, FS_CardinalityType
<1>2. ASSUME NEW t \in (0 - Hour) .. now'
      PROVE  Cardinality(BegunSince(t)' \ Unbooked') <= Cardinality(BookedSince(t)')
  <2>1. /\ BegunSince(t)' = BegunSince(t) /\ BookedSince(t)' = BookedSince(t)
        /\ Unbooked' = Unbooked
    BY <1>0 DEF BegunSince, BookedSince, Unbooked
  <2>2. CASE t \in (0 - Hour) .. now
    BY <2>1, <2>2 DEF HourInv
  <2>3. CASE t = now + 1
    <3>1. BegunSince(t) \ Unbooked = {}
      BY <1>0, <2>3 DEF BegunSince, HourInv
    <3>2. Cardinality(BookedSince(t)) \in Nat
      <4>1. t \in Int
        BY <1>0, <2>3
      <4>. QED
        BY <4>1, CountsFinite, FS_CardinalityType
    <3>. QED
      BY <2>1, <3>1, <3>2, FS_EmptySet
  <2>. QED
    BY <1>0, <2>2, <2>3
<1>. QED
  BY <1>1, <1>2

(* HourInv is inductive relative to TypeOK and BusyInv.                     *)
LEMMA HourInvHolds == Spec => []HourInv
<1>1. Init => HourInv
  <2> SUFFICES ASSUME Init PROVE HourInv
    OBVIOUS
  <2>1. IsFiniteSet(handled)
    BY FS_EmptySet DEF Init
  <2>2. \A c \in Contracts : firstSent[c] = Never /\ firstSent[c] <= now
    BY DEF Init, Never
  <2>3. \A t \in (0 - Hour) .. now :
           Cardinality(BegunSince(t) \ Unbooked) <= Cardinality(BookedSince(t))
    <3>1. \A t : BegunSince(t) \ Unbooked = {} /\ BookedSince(t) = {}
      BY DEF Init, BegunSince, BookedSince
    <3>2. Cardinality({}) = 0
      BY FS_EmptySet
    <3>. QED
      BY <3>1, <3>2
  <2>4. job.step = "idle"
    BY DEF Init, Idle
  <2>. QED
    BY <2>1, <2>2, <2>3, <2>4 DEF HourInv
<1>2. TypeOK /\ BusyInv /\ HourInv /\ [Next]_vars => HourInv'
  <2> SUFFICES ASSUME TypeOK, BusyInv, HourInv, [Next]_vars PROVE HourInv'
    OBVIOUS
  <2>0. /\ job \in Jobs /\ now \in Nat /\ handled \subseteq Contracts
        /\ firstSent \in [Contracts -> Nat \cup {Never}]
    BY Zenon DEF TypeOK
  <2>1. ASSUME NEW c \in Contracts, NEW free \in BOOLEAN, NEW value \in Values,
               Handle(c, free, value)
        PROVE  HourInv'
    <3>1. /\ job.step = "idle" /\ job'.step = "probe" /\ job'.contract = c
          /\ c \notin handled /\ handled' = handled \cup {c} /\ Recent < MaxPerHour
          /\ UNCHANGED <<now, mintedAt, firstSent>>
      BY <2>1 DEF Handle, BusyInv, Screen
    <3>2. \A t \in Int : BegunSince(t)' \ Unbooked' \subseteq BegunSince(t) \ Unbooked
      BY <3>1 DEF BegunSince, Unbooked
    <3>3. IsFiniteSet(handled')
      BY <3>1, FS_AddElement DEF HourInv
    <3>. QED
      BY <3>1, <3>2, <3>3, CountsKept DEF HourInv
  <2>2. ASSUME EndJob, job.step # "submit" PROVE HourInv'
    <3>1. job'.step = "idle" /\ UNCHANGED <<now, mintedAt, firstSent, handled>>
      BY <2>2 DEF EndJob, Idle
    <3>2. \A t \in Int : BegunSince(t)' \ Unbooked' \subseteq BegunSince(t) \ Unbooked
      BY <2>2, <3>1 DEF BegunSince, Unbooked
    <3>. QED
      BY <3>1, <3>2, CountsKept DEF HourInv
  <2>3. ASSUME job.step \in {"probe", "estimate", "prime"},
               job'.step \in {"estimate", "prime", "submit"},
               job'.contract = job.contract, UNCHANGED <<now, mintedAt, firstSent, handled>>
        PROVE  HourInv'
    <3>1. \A t \in Int : BegunSince(t)' \ Unbooked' \subseteq BegunSince(t) \ Unbooked
      BY <2>3 DEF BegunSince, Unbooked
    <3>. QED
      BY <2>3, <3>1, CountsKept DEF HourInv
  <2>4. CASE Probe
    <3>1. CASE Goto("estimate")
      <4>1. job'.step = "estimate" /\ job'.contract = job.contract
        BY <3>1, <2>0 DEF Goto, Jobs
      <4>. QED
        BY <2>3, <2>4, <3>1, <4>1 DEF Probe, Goto
    <3>. QED
      BY <2>4, <2>2, <3>1 DEF Probe
  <2>5. CASE Estimate
    <3>1. ASSUME NEW gas \in GasLimits \cup {MaxGasLimit}, job.step = "estimate",
                 job' = [job EXCEPT !.step = "prime", !.gas = gas],
                 UNCHANGED <<config, now, spent, mintedAt, handled, busy,
                             exposed, exposedOn, firstSent>>
          PROVE  HourInv'
      <4>1. job'.step = "prime" /\ job'.contract = job.contract
        BY <3>1, <2>0 DEF Jobs
      <4>. QED
        BY <2>3, <3>1, <4>1
    <3>. QED
      BY <2>5, <2>2, <3>1 DEF Estimate
  <2>6. CASE Prime
    <3>1. CASE Goto("submit")
      <4>1. job'.step = "submit" /\ job'.contract = job.contract
        BY <3>1, <2>0 DEF Goto, Jobs
      <4>. QED
        BY <2>3, <2>6, <3>1, <4>1 DEF Prime, Goto
    <3>. QED
      BY <2>6, <2>2, <3>1 DEF Prime
  <2>7. CASE SubmitOne
    <3>1. /\ job.step = "submit" /\ job'.step = "submit" /\ job'.contract = job.contract
          /\ UNCHANGED <<now, mintedAt, handled>> /\ job.contract \in handled
      BY <2>7, <2>0 DEF SubmitOne, Jobs, BusyInv
    <3>2. /\ \A c \in Contracts : c # job.contract => firstSent'[c] = firstSent[c]
          /\ firstSent'[job.contract] \in {firstSent[job.contract], now}
      BY <2>7, <2>0, <3>1 DEF SubmitOne
    <3>3. \A t \in Int : BegunSince(t)' \ Unbooked' \subseteq BegunSince(t) \ Unbooked
      BY <3>1, <3>2 DEF BegunSince, Unbooked
    <3>4. \A c \in Contracts : firstSent'[c] <= now
      BY <2>0, <3>1, <3>2 DEF HourInv
    <3>. QED
      BY <3>1, <3>2, <3>3, <3>4, CountsKept DEF HourInv
  <2>8. CASE Book
    <3>1. /\ job.step = "submit" /\ job'.step = "receipts" /\ job'.contract = job.contract
          /\ UNCHANGED <<now, firstSent, handled>>
      BY <2>8, <2>0 DEF Book, Jobs
    <3>2. \A t \in (0 - Hour) .. now' :
             Cardinality(BegunSince(t)' \ Unbooked') <= Cardinality(BookedSince(t)')
      BY <2>8, BookKeepsCounts
    <3>. QED
      BY <3>1, <3>2 DEF HourInv
  <2>9. CASE Receipts
    BY <2>9, <2>2 DEF Receipts
  <2>10. CASE Tick
    <3>1. /\ now' = now + 1 /\ UNCHANGED <<firstSent, handled, job>>
          /\ \A c \in Contracts : firstSent[c] \in Int
      BY <2>10, <2>0 DEF Tick, Never
    <3>2. \A c \in Contracts : firstSent'[c] <= now'
      BY <2>0, <3>1 DEF HourInv
    <3>3. Recent < MaxPerHour => Recent' < MaxPerHour
      BY <2>10, TickKeepsCounts, AutopilotAssumption
    <3>. QED
      BY <2>10, <3>1, <3>2, <3>3, TickKeepsCounts DEF HourInv
  <2>11. CASE UNCHANGED vars
    <3>1. \A t \in Int : BegunSince(t)' \ Unbooked' \subseteq BegunSince(t) \ Unbooked
      BY <2>11 DEF vars, BegunSince, Unbooked
    <3>. QED
      BY <2>11, <3>1, CountsKept DEF vars, HourInv
  <2>. QED
    BY <2>1, <2>4, <2>5, <2>6, <2>7, <2>8, <2>9, <2>10, <2>11 DEF Next, JobStep
<1>. QED
  BY <1>1, <1>2, TypeCorrect, BusyInvHolds, PTL DEF Spec

(* While a batch is going out, the collections begun within the hour are at *)
(* most the recent bookings and the collection itself.                      *)
LEMMA CapWhileSending ==
    ASSUME TypeOK, HourInv, job.step = "submit"
    PROVE  HourlyCapHeld
<1>0. /\ now \in Nat /\ Hour \in Nat /\ MaxPerHour \in Nat
      /\ now - Hour \in Int /\ now - Hour \in (0 - Hour) .. now
  BY AutopilotAssumption DEF TypeOK
<1> DEFINE A == BegunSince(now - Hour)
           B == A \ {job.contract}
<1>1. Recent = Cardinality(BookedSince(now - Hour)) /\ Recent < MaxPerHour
  BY DEF Recent, BookedSince, HourInv
<1>2. Cardinality(B) <= Recent
  BY <1>0, <1>1 DEF HourInv, Unbooked
<1>3. IsFiniteSet(A) /\ Recent \in Nat
  BY <1>0, <1>1, CountsFinite, FS_CardinalityType
<1>4. IsFiniteSet(B) /\ Cardinality(B) \in Nat
  BY <1>3, FS_Subset, FS_CardinalityType
<1>5. /\ IsFiniteSet(B \cup {job.contract})
      /\ Cardinality(B \cup {job.contract}) = Cardinality(B) + 1
  BY <1>4, FS_AddElement
<1>6. Cardinality(A) \in Nat /\ Cardinality(A) <= Cardinality(B) + 1
  <2>1. A \in SUBSET (B \cup {job.contract})
    OBVIOUS
  <2>2. Cardinality(A) \in Nat
    BY <1>3, FS_CardinalityType
  <2>. HIDE DEF A, B
  <2>. QED
    BY <2>1, <2>2, <1>5, FS_Subset
<1>7. Cardinality(A) <= MaxPerHour
  <2>. HIDE DEF A, B
  <2>. QED
    BY <1>0, <1>1, <1>2, <1>3, <1>4, <1>6
<1>. QED
  BY <1>7 DEF HourlyCapHeld, BegunSince

(* The cap on collections an hour holds of the transactions sent, at every  *)
(* instant, though screen() counts bookings and only when a collection      *)
(* arrives: the serialising flag leaves room for one uncounted collection,  *)
(* and the test was strict.                                                 *)
THEOREM HourlyCapSafe == Spec => []HourlyCapHeld
<1>1. Init => HourlyCapHeld
  <2>1. Init => {c \in Contracts : firstSent[c] # Never /\ firstSent[c] >= now - Hour} = {}
    BY DEF Init
  <2>. QED
    BY <2>1, FS_EmptySet, AutopilotAssumption DEF HourlyCapHeld
<1>2. TypeOK /\ HourInv /\ (job.step = "submit" => HourlyCapHeld)' /\ HourlyCapHeld
         /\ [Next]_vars => HourlyCapHeld'
  <2> SUFFICES ASSUME TypeOK, HourInv, (job.step = "submit" => HourlyCapHeld)',
                      HourlyCapHeld, [Next]_vars
               PROVE  HourlyCapHeld'
    OBVIOUS
  <2>1. CASE SubmitOne
    <3>1. job \in Jobs
      BY Zenon DEF TypeOK
    <3>2. (job.step)' = "submit"
      BY <2>1, <3>1 DEF SubmitOne, Jobs
    <3>. QED
      BY <3>2
  <2>2. CASE UNCHANGED firstSent /\ (now' = now \/ now' = now + 1)
    <3>0. /\ now \in Nat /\ Hour \in Nat /\ MaxPerHour \in Nat
          /\ now - Hour \in Int /\ now' - Hour \in Int
          /\ \A c \in Contracts : firstSent[c] \in Int
      BY <2>2, AutopilotAssumption DEF TypeOK, Never
    <3> DEFINE A == BegunSince(now - Hour)
               B == BegunSince(now' - Hour)
    <3>1. B \in SUBSET A
      BY <2>2, <3>0 DEF BegunSince
    <3>2. Cardinality(A) \in Nat /\ Cardinality(B) \in Nat /\ Cardinality(B) <= Cardinality(A)
      <4>1. IsFiniteSet(A)
        BY <3>0, CountsFinite
      <4>. HIDE DEF A, B
      <4>. QED
        BY <3>1, <4>1, FS_Subset, FS_CardinalityType
    <3>3. Cardinality(A) <= MaxPerHour
      BY DEF HourlyCapHeld, BegunSince
    <3>4. Cardinality(B) <= MaxPerHour
      <4>. HIDE DEF A, B
      <4>. QED
        BY <3>0, <3>2, <3>3
    <3>. QED
      BY <2>2, <3>4 DEF HourlyCapHeld, BegunSince
  <2>3. SubmitOne \/ (UNCHANGED firstSent /\ (now' = now \/ now' = now + 1))
    BY DEF Next, JobStep, Handle, Probe, Estimate, Prime, Book, Receipts, Tick, EndJob, Goto, vars
  <2>. QED
    BY <2>1, <2>2, <2>3
<1>3. TypeOK /\ HourInv => (job.step = "submit" => HourlyCapHeld)
  BY CapWhileSending
<1>. QED
  BY <1>1, <1>2, <1>3, TypeCorrect, HourInvHolds, PTL DEF Spec

----------------------------------------------------------------------------
(* The tracker.                                                              *)

(* What is recorded of one collection decides as all its attempts would: an *)
(* unpromoted row has recorded nothing, and inside the window the samples   *)
(* are the attempts.                                                         *)
Exact(s, attempts) ==
    /\ IsFiniteSet(s.samples)
    /\ ~s.promoted => s.samples = {} /\ attempts = {}
    /\ From(s.samples, WindowStart(s)) = From(attempts, WindowStart(s))

Reported(s) == s.promoted /\ Hot(s) => s.flagged

TrackerInv ==
    /\ IsFiniteSet(Tracked)
    /\ \A c \in Tracked : Exact(row[c], seen[c]) /\ Reported(row[c])

(* Evaluating a row changes its flag only, and sets it when the row is hot. *)
LEMMA EvaluateRow ==
    ASSUME NEW s \in Rows
    PROVE  /\ evaluate(s) \in Rows
           /\ evaluate(s) = [s EXCEPT !.flagged = evaluate(s).flagged]
           /\ Reported(evaluate(s))
<1> DEFINE t == evaluate(s)
<1>1. t \in Rows /\ t = [s EXCEPT !.flagged = t.flagged] /\ (Hot(s) => t.flagged)
  BY DEF evaluate, Rows
<1>2. t.first = s.first /\ t.free = s.free /\ t.paid = s.paid /\ t.minters = s.minters /\ t.samples = s.samples
  BY DEF evaluate, Rows
<1>3. Hot(t) <=> Hot(s)
  <2>. HIDE DEF t
  <2>. QED
    BY <1>2 DEF Hot, attemptsInWindow, WindowStart
<1>. QED
  BY <1>1, <1>3 DEF Reported

(* The row of a collection that was just seen for the first time. *)
LEMMA NewRowType ==
    ASSUME clock \in Nat, NEW known \in BOOLEAN
    PROVE  NewRow(known) \in Rows /\ Exact(NewRow(known), {})
<1>1. NewRow(known) \in Rows /\ NewRow(known).samples = {}
  BY DEF NewRow, Rows
<1>. QED
  BY <1>1, FS_EmptySet DEF Exact, From

(* One more attempt is counted. *)
LEMMA CountedRow ==
    ASSUME clock \in Nat, NEW s \in Rows, NEW free \in BOOLEAN
    PROVE  /\ Counted(s, free) \in Rows
           /\ Counted(s, free).first = s.first /\ Counted(s, free).samples = s.samples
           /\ s.promoted => Counted(s, free).promoted
<1>1. s.attempts + 1 \in Nat /\ s.free + 1 \in Nat /\ s.paid + 1 \in Nat
      /\ (s.promoted \/ s.attempts + 1 >= PromoteAfter) \in BOOLEAN
  BY DEF Rows
<1>. QED
  BY <1>1 DEF Counted, Rows

(* A trim drops nothing of the window, which starts at the cutoff or later. *)
LEMMA TrimKeepsWindow ==
    ASSUME clock \in Nat, NEW s \in Rows, NEW attempts \in SUBSET Samples
    PROVE  /\ TrimSamples(attempts) \in SUBSET attempts
           /\ From(TrimSamples(attempts), WindowStart(s)) = From(attempts, WindowStart(s))
<1>1. WindowStart(s) \in Int /\ clock - Window \in Int /\ WindowStart(s) >= clock - Window
  BY MintTrackerAssumption DEF WindowStart, Rows
<1>2. From(From(attempts, clock - Window), WindowStart(s)) = From(attempts, WindowStart(s))
  <2>1. \A a \in attempts : a.at \in Nat /\ (a.at >= WindowStart(s) => a.at >= clock - Window)
    BY <1>1 DEF Samples
  <2>. QED
    BY <2>1 DEF From
<1>3. From(attempts, clock - Window) \in SUBSET attempts
  BY DEF From
<1>. QED
  BY <1>2, <1>3 DEF TrimSamples

(* After a mint, the row of its collection is exact and evaluated. *)
LEMMA SampledRow ==
    ASSUME clock \in Nat, NEW s \in Rows, NEW attempts \in SUBSET Samples,
           IsFiniteSet(s.samples), ~s.promoted => s.samples = {},
           From(s.samples, WindowStart(s)) = From(attempts, WindowStart(s)),
           NEW t, t = Sampled(s)
    PROVE  /\ t \in Rows /\ ThisAttempt(t) \in Samples
           /\ Exact(t, IF t.promoted THEN attempts \cup {ThisAttempt(t)} ELSE {})
           /\ Reported(t)
<1>1. ThisAttempt(s) \in Samples
  BY DEF ThisAttempt, Samples, Rows
<1>2. CASE ~s.promoted
  <2>1. t = s
    BY <1>2 DEF Sampled
  <2>. QED
    BY <1>1, <1>2, <2>1 DEF Exact, Reported, From
<1>3. CASE s.promoted
  <2> DEFINE all == s.samples \cup {ThisAttempt(s)}
             u == [s EXCEPT !.samples = TrimSamples(all)]
  <2>1. all \in SUBSET Samples /\ IsFiniteSet(all)
    BY <1>1, FS_AddElement DEF Rows
  <2>2. /\ TrimSamples(all) \in SUBSET all
        /\ From(TrimSamples(all), WindowStart(s)) = From(all, WindowStart(s))
    BY <2>1, TrimKeepsWindow
  <2>3. IsFiniteSet(TrimSamples(all))
    BY <2>1, <2>2, FS_Subset
  <2>4. /\ u \in Rows /\ u.first = s.first /\ u.promoted /\ u.attempts = s.attempts
        /\ u.samples = TrimSamples(all)
    <3>. HIDE DEF all
    <3>. QED
      BY <1>3, <2>1, <2>2 DEF Rows
  <2>5. t = evaluate(u)
    BY <1>3 DEF Sampled
  <2>. HIDE DEF u
  <2>6. t \in Rows /\ t = [u EXCEPT !.flagged = t.flagged] /\ Reported(t)
    BY <2>4, <2>5, EvaluateRow
  <2>7. /\ t.first = s.first /\ t.promoted /\ t.attempts = s.attempts /\ t.samples = TrimSamples(all)
    <3>. HIDE DEF all
    <3>. QED
      BY <2>4, <2>6 DEF Rows
  <2>8. WindowStart(t) = WindowStart(s) /\ ThisAttempt(t) = ThisAttempt(s)
    BY <2>7 DEF WindowStart, ThisAttempt
  <2>9. From(all, WindowStart(s)) = From(attempts \cup {ThisAttempt(s)}, WindowStart(s))
    BY DEF From
  <2>. HIDE DEF all
  <2>. QED
    BY <1>1, <2>2, <2>3, <2>6, <2>7, <2>8, <2>9 DEF Exact
<1>. QED
  BY <1>2, <1>3

(* A sender that was recovered is added, and the row evaluated again. *)
LEMMA LearnedRow ==
    ASSUME NEW s \in Rows, NEW from \in Senders, NEW attempts, Exact(s, attempts),
           NEW t, t = Learned(s, from)
    PROVE  t \in Rows /\ Exact(t, attempts) /\ Reported(t)
<1> DEFINE u == [s EXCEPT !.minters = @ \cup {from}]
<1>1. u \in Rows /\ u.first = s.first /\ u.promoted = s.promoted /\ u.samples = s.samples
  BY DEF Rows
<1>2. t = evaluate(u)
  BY DEF Learned
<1>. HIDE DEF u
<1>3. t \in Rows /\ t = [u EXCEPT !.flagged = t.flagged] /\ Reported(t)
  BY <1>1, <1>2, EvaluateRow
<1>4. t.first = s.first /\ t.promoted = s.promoted /\ t.samples = s.samples
  BY <1>1, <1>3 DEF Rows
<1>. QED
  BY <1>3, <1>4 DEF Exact, WindowStart

(* While no time passes, what is said of a row stays said of it. *)
LEMMA SameMoment ==
    ASSUME clock' = clock, NEW s, NEW attempts
    PROVE  (Exact(s, attempts)' <=> Exact(s, attempts)) /\ (Reported(s)' <=> Reported(s))
BY DEF Exact, Reported, From, WindowStart, Hot, attemptsInWindow, Since

(* As time passes, the window starts later and nothing turns hot. *)
LEMMA LaterMoment ==
    ASSUME clock \in Nat, clock' = clock + 1, NEW s \in Rows, NEW attempts \in SUBSET Samples,
           Exact(s, attempts), Reported(s)
    PROVE  Exact(s, attempts)' /\ Reported(s)'
<1> DEFINE W == WindowStart(s)
           V == WindowStart(s)'
<1>1. W \in Int /\ V \in Int /\ V >= W
  BY MintTrackerAssumption DEF WindowStart, Rows
<1>. HIDE DEF W, V
<1>2. \A a \in Samples : a.at \in Nat
  BY DEF Samples
<1>3. s.samples \in SUBSET Samples /\ IsFiniteSet(s.samples) /\ From(s.samples, W) = From(attempts, W)
  BY DEF Exact, Rows, W
<1>4. \A a \in Samples : a.at >= V => a.at >= W
  BY <1>1, <1>2
<1>5. /\ From(s.samples, V) = From(From(s.samples, W), V)
      /\ From(attempts, V) = From(From(attempts, W), V)
  BY <1>3, <1>4 DEF From
<1>6. From(s.samples, V) = From(attempts, V)
  BY <1>3, <1>5
<1>7. Exact(s, attempts)'
  BY <1>6 DEF Exact, From, V
<1>8. /\ From(s.samples, V) \in SUBSET From(s.samples, W)
      /\ From(s.samples, W) \in SUBSET s.samples
  BY <1>5 DEF From
<1>9. /\ Since(s.samples, V) \in Nat /\ Since(s.samples, W) \in Nat
      /\ Since(s.samples, V) <= Since(s.samples, W)
  BY <1>3, <1>8, FS_Subset, FS_CardinalityType DEF Since
<1>10. attemptsInWindow(s) = Since(s.samples, W) /\ attemptsInWindow(s)' = Since(s.samples, V)
  BY DEF attemptsInWindow, Since, From, W, V
<1>11. Hot(s)' => Hot(s)
  <2>1. s.first \in Nat /\ MaxAge \in Nat /\ MinAttempts \in Nat
    BY MintTrackerAssumption DEF Rows
  <2>2. clock' - s.first <= MaxAge => clock - s.first <= MaxAge
    BY <2>1
  <2>3. attemptsInWindow(s)' >= MinAttempts => attemptsInWindow(s) >= MinAttempts
    BY <2>1, <1>9, <1>10
  <2>. QED
    BY <2>2, <2>3 DEF Hot
<1>. QED
  BY <1>7, <1>11 DEF Reported

(* evictIfNeeded leaves room for the newcomer. *)
LEMMA EvictionBounds ==
    ASSUME IsFiniteSet(Tracked), NEW c \in Collections, c \notin Tracked, NEW gone \in Evicted(c)
    PROVE  /\ gone \subseteq Tracked /\ IsFiniteSet((Tracked \ gone) \cup {c})
           /\ Cardinality((Tracked \ gone) \cup {c}) <= MaxContracts
<1>1. gone \subseteq Tracked
  BY DEF Evicted, Stale
<1>2. IsFiniteSet(Tracked \cup {c}) /\ IsFiniteSet((Tracked \ gone) \cup {c})
  <2>1. IsFiniteSet(Tracked \ gone)
    BY FS_Difference
  <2>. QED
    BY <2>1, FS_AddElement
<1>3. CASE Cardinality(Tracked \cup {c}) <= MaxContracts
  <2>1. (Tracked \ gone) \cup {c} = Tracked \cup {c}
    BY <1>3 DEF Evicted
  <2>. QED
    BY <1>1, <1>2, <1>3, <2>1
<1>4. CASE ~(Cardinality(Tracked \cup {c}) <= MaxContracts)
  <2> DEFINE Fresh == (Tracked \cup {c}) \ Stale
             excess == IF Cardinality(Fresh) > MaxContracts THEN Cardinality(Fresh) - MaxContracts ELSE 0
  <2>1. PICK more \in SUBSET (Tracked \ Stale) : gone = Stale \cup more /\ Cardinality(more) = excess
    BY <1>4 DEF Evicted
  <2>2. (Tracked \ gone) \cup {c} = Fresh \ more /\ Fresh \cap more = more
    BY <2>1 DEF Stale
  <2>3. IsFiniteSet(Fresh)
    BY <1>2, FS_Difference
  <2>4. Cardinality(Fresh) \in Nat
    BY <2>3, FS_CardinalityType
  <2>5. Cardinality(Fresh \ more) = Cardinality(Fresh) - Cardinality(more)
    <3>. HIDE DEF Fresh
    <3>. QED
      BY <2>2, <2>3, FS_Difference
  <2>6. Cardinality(Fresh) - excess <= MaxContracts
    <3>. HIDE DEF Fresh
    <3>. QED
      BY <2>4, MintTrackerAssumption
  <2>7. Cardinality((Tracked \ gone) \cup {c}) <= MaxContracts
    BY <2>1, <2>2, <2>5, <2>6
  <2>. QED
    BY <1>1, <1>2, <2>7
<1>. QED
  BY <1>3, <1>4

(* The recovery queue, apart from the rest of the state. *)
QueueOK ==
    /\ queue \in Seq(Recoveries) /\ Len(queue) <= MaxQueue
    /\ recovery \in Recoveries \cup {NoJob}
    /\ recovery = NoJob => queue = <<>>

(* A recovery starts at once, waits in the queue, or is dropped. *)
LEMMA EnqueueKeeps ==
    ASSUME QueueOK, NEW j \in Recoveries, Enqueue(j)
    PROVE  QueueOK'
<1>1. MaxQueue \in Nat /\ Len(queue) \in Nat
  BY MintTrackerAssumption DEF QueueOK
<1>2. CASE recovery = NoJob
  BY <1>2, NothingsAssumption DEF Enqueue, QueueOK
<1>3. CASE recovery # NoJob
  <2>1. queue' = Push(j) /\ recovery' = recovery
    BY <1>3 DEF Enqueue
  <2>2. Push(j) \in Seq(Recoveries) /\ Len(Push(j)) <= MaxQueue
    BY <1>1 DEF QueueOK, Push
  <2>. QED
    BY <1>3, <2>1, <2>2 DEF QueueOK
<1>. QED
  BY <1>2, <1>3

(* The drain goes on with the next recovery, or ends with the queue empty. *)
LEMMA ShiftKeeps ==
    ASSUME QueueOK, Shift
    PROVE  QueueOK'
<1>1. MaxQueue \in Nat
  BY MintTrackerAssumption
<1>2. CASE queue = <<>>
  BY <1>1, <1>2 DEF Shift, QueueOK
<1>3. CASE queue # <<>>
  <2>1. /\ Head(queue) \in Recoveries /\ Tail(queue) \in Seq(Recoveries)
        /\ Len(queue) \in Nat /\ Len(Tail(queue)) = Len(queue) - 1
    BY <1>3 DEF QueueOK
  <2>. QED
    BY <1>1, <1>3, <2>1, NothingsAssumption DEF Shift, QueueOK
<1>. QED
  BY <1>2, <1>3

(* A mint of one collection: its row is exact and evaluated, and those of   *)
(* the others are left alone or evicted.                                     *)
LEMMA IngestKeeps ==
    ASSUME TrackerTypeOK, TrackerInv, NEW c \in Collections, NEW from \in Senders,
           NEW free \in BOOLEAN, NEW known \in BOOLEAN, Ingest(c, from, free, known)
    PROVE  TrackerTypeOK' /\ TrackerInv'
<1>1. clock \in Nat /\ clock' = clock /\ mints' \in Nat
  BY DEF TrackerTypeOK, Ingest
<1>2. PICK old : old = IF row[c] = NoRow THEN NewRow(known) ELSE row[c]
  OBVIOUS
<1>3. PICK before : before = IF row[c] = NoRow THEN {} ELSE seen[c]
  OBVIOUS
<1>4. PICK new : new = Sampled(Counted(old, free))
  OBVIOUS
<1>5. PICK after : after = IF new.promoted THEN before \cup {ThisAttempt(new)} ELSE {}
  OBVIOUS
<1>6. PICK gone \in IF row[c] = NoRow THEN Evicted(c) ELSE {{}} :
        /\ row' = [d \in Collections |-> IF d = c THEN new
                                         ELSE IF d \in gone THEN NoRow ELSE row[d]]
        /\ seen' = [d \in Collections |-> IF d = c THEN after
                                          ELSE IF d \in gone THEN {} ELSE seen[d]]
  BY <1>2, <1>3, <1>4, <1>5 DEF Ingest
<1>7. old \in Rows /\ before \in SUBSET Samples /\ Exact(old, before)
  <2>1. CASE row[c] = NoRow
    BY <1>1, <1>2, <1>3, <2>1, NewRowType
  <2>2. CASE row[c] # NoRow
    BY <1>2, <1>3, <2>2 DEF TrackerTypeOK, TrackerInv, Tracked
  <2>. QED
    BY <2>1, <2>2
<1>8. new \in Rows /\ ThisAttempt(new) \in Samples /\ Exact(new, after) /\ Reported(new)
  <2>1. PICK s : s = Counted(old, free)
    OBVIOUS
  <2>2. /\ s \in Rows /\ s.first = old.first /\ s.samples = old.samples
        /\ old.promoted => s.promoted
    BY <1>1, <1>7, <2>1, CountedRow
  <2>3. IsFiniteSet(s.samples) /\ (~s.promoted => s.samples = {})
    BY <1>7, <2>2 DEF Exact
  <2>4. From(s.samples, WindowStart(s)) = From(before, WindowStart(s))
    BY <1>7, <2>2 DEF Exact, WindowStart
  <2>. QED
    BY <1>1, <1>4, <1>5, <1>7, <2>1, <2>2, <2>3, <2>4, SampledRow
<1>9. after \in SUBSET Samples
  BY <1>5, <1>7, <1>8
<1>10. gone \subseteq Tracked /\ Tracked' = (Tracked \ gone) \cup {c}
       /\ IsFiniteSet(Tracked') /\ Cardinality(Tracked') <= MaxContracts
  <2>1. new # NoRow
    BY <1>8, NothingsAssumption
  <2>2. Tracked' = (Tracked \ gone) \cup {c}
    BY <1>6, <2>1 DEF Tracked
  <2>3. CASE row[c] = NoRow
    <3>1. c \notin Tracked /\ gone \in Evicted(c) /\ IsFiniteSet(Tracked)
      BY <1>6, <2>3 DEF Tracked, TrackerInv
    <3>. QED
      BY <2>2, <3>1, EvictionBounds
  <2>4. CASE row[c] # NoRow
    <3>1. gone = {} /\ c \in Tracked
      BY <1>6, <2>4 DEF Tracked
    <3>2. Tracked' = Tracked
      BY <2>2, <3>1
    <3>. QED
      BY <2>2, <3>1, <3>2 DEF TrackerTypeOK, TrackerInv, Tracked
  <2>. QED
    BY <2>3, <2>4
<1>11. QueueOK'
  <2>1. QueueOK
    BY DEF QueueOK, TrackerTypeOK
  <2>2. [contract |-> c, from |-> from] \in Recoveries
    BY DEF Recoveries
  <2>3. Enqueue([contract |-> c, from |-> from]) \/ UNCHANGED <<queue, recovery>>
    BY DEF Ingest
  <2>4. CASE Enqueue([contract |-> c, from |-> from])
    BY <2>1, <2>2, <2>4, EnqueueKeeps
  <2>5. CASE UNCHANGED <<queue, recovery>>
    BY <2>1, <2>5 DEF QueueOK
  <2>. QED
    BY <2>3, <2>4, <2>5
<1>12. TrackerTypeOK'
  <2>1. row' \in [Collections -> Rows \cup {NoRow}]
    BY <1>6, <1>8 DEF TrackerTypeOK
  <2>2. seen' \in [Collections -> SUBSET Samples]
    BY <1>6, <1>9 DEF TrackerTypeOK
  <2>. QED
    BY <1>1, <1>10, <1>11, <2>1, <2>2 DEF TrackerTypeOK, QueueOK, Tracked
<1>13. ASSUME NEW d \in Tracked'
       PROVE  Exact(row[d], seen[d])' /\ Reported(row[d])'
  <2>1. PICK s, h : s = row'[d] /\ h = seen'[d]
    OBVIOUS
  <2>2. Exact(s, h) /\ Reported(s)
    <3>1. CASE d = c
      BY <1>6, <1>8, <2>1, <3>1
    <3>2. CASE d # c
      <4>1. d \in Tracked /\ d \notin gone
        BY <1>10, <3>2
      <4>2. s = row[d] /\ h = seen[d]
        BY <1>6, <2>1, <3>2, <4>1 DEF Tracked
      <4>. QED
        BY <4>1, <4>2 DEF TrackerInv
    <3>. QED
      BY <3>1, <3>2
  <2>3. Exact(s, h)' /\ Reported(s)'
    BY <1>1, <2>2, SameMoment
  <2>. QED
    BY <2>1, <2>3 DEF Exact, Reported, WindowStart, Hot, attemptsInWindow, Since, From
<1>. QED
  BY <1>10, <1>12, <1>13 DEF TrackerInv

(* A sender is recovered, of a row that may be another one by then. *)
LEMMA RecoverKeeps ==
    ASSUME TrackerTypeOK, TrackerInv, Recover
    PROVE  TrackerTypeOK' /\ TrackerInv'
<1>1. clock' = clock /\ mints' = mints /\ seen' = seen /\ recovery \in Recoveries
  BY DEF TrackerTypeOK, Recover
<1>2. PICK c, from : c = recovery.contract /\ from = recovery.from
  OBVIOUS
<1>3. c \in Collections /\ from \in Senders
  BY <1>1, <1>2 DEF Recoveries
<1>4. QueueOK'
  BY ShiftKeeps DEF Recover, QueueOK, TrackerTypeOK
<1>5. PICK new : new = Learned(row[c], from)
  OBVIOUS
<1>6. CASE row[c] = NoRow
  <2>1. row' = row
    BY <1>2, <1>6 DEF Recover
  <2>2. TrackerTypeOK'
    BY <1>1, <1>4, <2>1 DEF TrackerTypeOK, QueueOK
  <2>3. TrackerInv'
    BY <1>1, <2>1 DEF TrackerInv, Tracked, Exact, Reported, WindowStart, Hot, attemptsInWindow, Since, From
  <2>. QED
    BY <2>2, <2>3
<1>7. CASE row[c] # NoRow
  <2>1. row' = [row EXCEPT ![c] = new]
    BY <1>2, <1>5, <1>7 DEF Recover
  <2>2. row[c] \in Rows /\ Exact(row[c], seen[c])
    BY <1>3, <1>7 DEF TrackerTypeOK, TrackerInv, Tracked
  <2>3. new \in Rows /\ Exact(new, seen[c]) /\ Reported(new)
    <3>1. PICK s, h : s = row[c] /\ h = seen[c]
      OBVIOUS
    <3>. QED
      BY <1>3, <1>5, <2>2, <3>1, LearnedRow
  <2>4. new # NoRow
    BY <2>3, NothingsAssumption
  <2>5. Tracked' = Tracked
    BY <1>3, <1>7, <2>1, <2>4 DEF Tracked, TrackerTypeOK
  <2>6. row' \in [Collections -> Rows \cup {NoRow}]
    BY <2>1, <2>3 DEF TrackerTypeOK
  <2>7. TrackerTypeOK'
    BY <1>1, <1>4, <2>5, <2>6 DEF TrackerTypeOK, QueueOK, Tracked
  <2>8. ASSUME NEW d \in Tracked'
        PROVE  Exact(row[d], seen[d])' /\ Reported(row[d])'
    <3>1. PICK s, h : s = row'[d] /\ h = seen'[d]
      OBVIOUS
    <3>2. d \in Collections /\ d \in Tracked
      BY <2>5 DEF Tracked
    <3>3. Exact(s, h) /\ Reported(s)
      <4>1. CASE d = c
        BY <1>1, <2>1, <2>3, <3>1, <3>2, <4>1 DEF TrackerTypeOK
      <4>2. CASE d # c
        BY <1>1, <2>1, <3>1, <3>2, <4>2 DEF TrackerTypeOK, TrackerInv
      <4>. QED
        BY <4>1, <4>2
    <3>4. Exact(s, h)' /\ Reported(s)'
      BY <1>1, <3>3, SameMoment
    <3>. QED
      BY <3>1, <3>4 DEF Exact, Reported, WindowStart, Hot, attemptsInWindow, Since, From
  <2>. QED
    BY <2>5, <2>7, <2>8 DEF TrackerInv
<1>. QED
  BY <1>6, <1>7

(* Time passes. *)
LEMMA ClockKeeps ==
    ASSUME TrackerTypeOK, TrackerInv, ClockTick
    PROVE  TrackerTypeOK' /\ TrackerInv'
<1>1. /\ clock \in Nat /\ clock' = clock + 1
      /\ UNCHANGED <<row, queue, recovery, mints, seen>>
  BY DEF TrackerTypeOK, ClockTick
<1>2. TrackerTypeOK'
  BY <1>1 DEF TrackerTypeOK
<1>3. Tracked' = Tracked
  BY <1>1 DEF Tracked
<1>4. ASSUME NEW d \in Tracked'
      PROVE  Exact(row[d], seen[d])' /\ Reported(row[d])'
  <2>1. PICK s, h : s = row[d] /\ h = seen[d]
    OBVIOUS
  <2>2. s \in Rows /\ h \in SUBSET Samples /\ Exact(s, h) /\ Reported(s)
    BY <1>3, <2>1 DEF TrackerTypeOK, TrackerInv, Tracked
  <2>3. Exact(s, h)' /\ Reported(s)'
    BY <1>1, <2>2, LaterMoment
  <2>4. row'[d] = s /\ seen'[d] = h
    BY <1>1, <2>1
  <2>. QED
    BY <2>3, <2>4 DEF Exact, Reported, WindowStart, Hot, attemptsInWindow, Since, From
<1>. QED
  BY <1>2, <1>3, <1>4 DEF TrackerInv

(* The invariant of the tracker. *)
LEMMA TrackerInvHolds == TrackerSpec => [](TrackerTypeOK /\ TrackerInv)
<1>1. TrackerInit => TrackerTypeOK /\ TrackerInv
  <2> SUFFICES ASSUME TrackerInit PROVE TrackerTypeOK /\ TrackerInv
    OBVIOUS
  <2>1. Tracked = {} /\ IsFiniteSet(Tracked) /\ Cardinality(Tracked) = 0
    BY FS_EmptySet DEF TrackerInit, Tracked
  <2>2. MaxContracts \in Nat /\ MaxQueue \in Nat
    BY MintTrackerAssumption
  <2>. QED
    BY <2>1, <2>2 DEF TrackerInit, TrackerTypeOK, TrackerInv, Tracked
<1>2. (TrackerTypeOK /\ TrackerInv) /\ [TrackerNext]_trackerVars => (TrackerTypeOK /\ TrackerInv)'
  <2> SUFFICES ASSUME TrackerTypeOK, TrackerInv, [TrackerNext]_trackerVars
               PROVE  TrackerTypeOK' /\ TrackerInv'
    OBVIOUS
  <2>1. ASSUME NEW c \in Collections, NEW from \in Senders, NEW free \in BOOLEAN,
               NEW known \in BOOLEAN, Ingest(c, from, free, known)
        PROVE  TrackerTypeOK' /\ TrackerInv'
    BY <2>1, IngestKeeps
  <2>2. CASE Recover
    BY <2>2, RecoverKeeps
  <2>3. CASE RecoverFails
    <3>1. QueueOK' /\ UNCHANGED <<clock, row, mints, seen>>
      BY <2>3, ShiftKeeps DEF RecoverFails, QueueOK, TrackerTypeOK
    <3>2. TrackerTypeOK'
      BY <3>1 DEF TrackerTypeOK, QueueOK
    <3>3. TrackerInv'
      BY <3>1 DEF TrackerInv, Tracked, Exact, Reported, WindowStart, Hot, attemptsInWindow, Since, From
    <3>. QED
      BY <3>2, <3>3
  <2>4. CASE ClockTick
    BY <2>4, ClockKeeps
  <2>5. CASE UNCHANGED trackerVars
    <3>1. UNCHANGED <<clock, row, queue, recovery, mints, seen>>
      BY <2>5 DEF trackerVars
    <3>2. TrackerTypeOK'
      BY <3>1 DEF TrackerTypeOK
    <3>3. TrackerInv'
      BY <3>1 DEF TrackerInv, Tracked, Exact, Reported, WindowStart, Hot, attemptsInWindow, Since, From
    <3>. QED
      BY <3>2, <3>3
  <2>. QED
    BY <2>1, <2>2, <2>3, <2>4, <2>5 DEF TrackerNext
<1>. QED
  BY <1>1, <1>2, PTL DEF TrackerSpec

(* The tracker keeps its types and its limits: no more rows than            *)
(* maxContracts, though eviction runs in the middle of an ingestion, and no *)
(* more recoveries waiting than the queue may hold.                          *)
THEOREM TrackerBounded == TrackerSpec => []TrackerTypeOK
BY TrackerInvHolds, PTL

(* A collection that meets every threshold has been reported, however late  *)
(* or incompletely its senders are recovered.                                *)
THEOREM NothingHotIsMissed == TrackerSpec => []NeverMissed
<1>1. TrackerInv => NeverMissed
  BY DEF TrackerInv, NeverMissed, Reported
<1>. QED
  BY <1>1, TrackerInvHolds, PTL

(* The samples kept count what all attempts in the window would. *)
THEOREM WindowIsExact == TrackerSpec => []WindowExact
<1>1. TrackerInv => WindowExact
  BY DEF TrackerInv, WindowExact, Exact, attemptsInWindow, Since
<1>. QED
  BY <1>1, TrackerInvHolds, PTL
============================================================================
