----------------------------- MODULE MintBatch -----------------------------
(***************************************************************************)
(* Buying a collection with every wallet: mintCandidate of src/hunt.ts,     *)
(* with NonceManager.prime (src/wallet.ts), submitAll and waitForReceipts   *)
(* (src/submit.ts) and payServiceFee (src/billing.ts).  A hunt round buys   *)
(* one collection after another, and withSingleFlight lets one round run    *)
(* at a time; the Mint button (src/routes/mintnow.ts) calls mintCandidate   *)
(* too and takes no lock.  All runs use the same wallets: they meet at the  *)
(* nonces, and a request that a run has given up may still arrive (sendRaw  *)
(* of src/rpc.ts).  A run is one call of mintCandidate.                     *)
(***************************************************************************)
EXTENDS Integers, FiniteSets, Sequences

CONSTANTS
    Hunts,            \* collections a hunt round tries to buy
    Presses,          \* presses of the Mint button
    Wallets, First,   \* loadWallets, and wallets[0]
    Contracts,
    GasLimits         \* what eth_estimateGas may lead to

ASSUME MintBatchAssumption ==
    /\ Hunts \cap Presses = {}
    /\ First \in Wallets /\ IsFiniteSet(Wallets) /\ GasLimits # {}

Runs == Hunts \cup Presses

VARIABLES
    run,      \* the locals of each run
    ledger,   \* per wallet, the transactions the sequencer took, in nonce order
    mined,    \* per wallet, how many of them have been executed
    adrift    \* per wallet, those given up that would be the next one if they arrived

vars == <<run, ledger, mined, adrift>>

Unprimed == -1

(* A signed transaction.  Signing is deterministic: two runs that fill in   *)
(* the same fields get the same transaction, hence the same hash.  A fee    *)
(* is worked out from the gas of executed transactions, named by nonce.     *)
Txs == [kind : {"mint", "fee"}, contract : Contracts, gas : GasLimits,
        bills : SUBSET (Wallets \X Nat)]
AnyGas == CHOOSE g \in GasLimits : TRUE
MintTx(c, g) == [kind |-> "mint", contract |-> c, gas |-> g, bills |-> {}]
FeeTx(c, bills) == [kind |-> "fee", contract |-> c, gas |-> AnyGas, bills |-> bills]

Steps == {"idle", "inspect", "prepare", "prime", "submit", "fee", "charge", "done"}
RunTypes ==
    [at : Steps, contract : Contracts, gas : GasLimits,
     funded : SUBSET Wallets,
     nonce : [Wallets -> Nat \cup {Unprimed}],
     told : [Wallets -> {"none", "accepted", "rejected"}],
     beaten : SUBSET Wallets,     \* history: another's was taken between nonce and answer
     got : SUBSET Wallets,        \* wallets whose receipt arrived
     confirmed : SUBSET Wallets,  \* ... with status 1
     feeNonce : Nat,
     fee : {"none", "paid", "error"}]

TypeOK ==
    /\ run \in [Runs -> RunTypes]
    /\ ledger \in [Wallets -> Seq([tx : Txs, ok : BOOLEAN])]
    /\ mined \in [Wallets -> Nat]
    /\ adrift \in [Wallets -> SUBSET Txs]
    /\ \A w \in Wallets : mined[w] <= Len(ledger[w])
    /\ \A r \in Runs, w \in Wallets : run[r].nonce[w] <= Len(ledger[w])   \* never a gap

NewRun(c) ==
    [at |-> "idle", contract |-> c, gas |-> AnyGas, funded |-> {},
     nonce |-> [w \in Wallets |-> Unprimed], told |-> [w \in Wallets |-> "none"],
     beaten |-> {}, got |-> {}, confirmed |-> {}, feeNonce |-> 0, fee |-> "none"]

Init ==
    /\ run \in [Runs -> {NewRun(c) : c \in Contracts}]
    /\ ledger = [w \in Wallets |-> <<>>]
    /\ mined = [w \in Wallets |-> 0]
    /\ adrift = [w \in Wallets |-> {}]

Mint(r) == MintTx(run[r].contract, run[r].gas)
Sent(r) == \A w \in run[r].funded : run[r].told[w] # "none"

----------------------------------------------------------------------------
(* Mutated forms the checks substitute: each is a slip this code could have. *)

NextMinedNonce(w) == mined[w]
NonceAfterNext(w) == Len(ledger[w]) + 1
AnyTx(w, n, tx) == n < mined[w]
BillAccepted(r) == {w \in run[r].funded : run[r].told[w] = "accepted"}

----------------------------------------------------------------------------
(* The sequencer's answer to a transaction of nonce n. *)
PendingNonce(w) == Len(ledger[w])
Fresh(w, n) == n = Len(ledger[w])
TooLow(w, n) == n < mined[w]
Known(w, n, tx) == n < Len(ledger[w]) /\ ledger[w][n + 1].tx = tx

(* It takes one: what is adrift for that nonce is too late, and so is a run *)
(* that has read the nonce and not been answered.                           *)
Take(w, tx) ==
    /\ ledger' = [ledger EXCEPT ![w] = Append(@, [tx |-> tx, ok |-> FALSE])]
    /\ adrift' = [adrift EXCEPT ![w] = {}]

Beats(w, q) ==
    IF q.nonce[w] # Unprimed /\ q.told[w] = "none" THEN [q EXCEPT !.beaten = @ \cup {w}] ELSE q

(* Run r's own is taken, and r goes on as rec.                              *)
Takes(r, rec, w, tx) ==
    /\ Take(w, tx)
    /\ run' = [s \in Runs |-> IF s = r THEN rec ELSE Beats(w, run[s])]

(* A request that is refused or given up; given up, it may still arrive.    *)
Missed(w, n, tx) ==
    /\ UNCHANGED ledger
    /\ \/ UNCHANGED adrift
       \/ Fresh(w, n) /\ adrift' = [adrift EXCEPT ![w] = @ \cup {tx}]

ArrivesLate(w) ==
    /\ \E tx \in adrift[w] : Take(w, tx)
    /\ run' = [s \in Runs |-> Beats(w, run[s])]
    /\ UNCHANGED mined

(* A receipt asked for by hash. *)
HasReceipt(w, n, tx) == n < mined[w] /\ ledger[w][n + 1].tx = tx

(* The chain executes the next transaction; a mint may revert, a plain       *)
(* transfer does not.                                                        *)
Mine(w) ==
    /\ mined[w] < Len(ledger[w])
    /\ mined' = [mined EXCEPT ![w] = @ + 1]
    /\ \E ok \in BOOLEAN :
          /\ ledger[w][mined[w] + 1].tx.kind = "fee" => ok
          /\ ledger' = [ledger EXCEPT ![w][mined[w] + 1].ok = ok]
    /\ UNCHANGED <<run, adrift>>

----------------------------------------------------------------------------
(* withSingleFlight('hunt'), and a round buys one collection at a time. *)
MayStart(r) == r \in Presses \/ \A s \in Hunts : run[s].at \in {"idle", "done"}

Set(r, rec) == run' = [run EXCEPT ![r] = rec]

(* A run that ends before it sends anything: no locals are left to matter.   *)
GiveUp(r) == Set(r, [NewRun(run[r].contract) EXCEPT !.at = "done"])

Begin(r) ==
    /\ run[r].at = "idle"
    /\ MayStart(r)
    /\ Set(r, [run[r] EXCEPT !.at = "inspect"])
    /\ UNCHANGED <<ledger, mined, adrift>>

(* The contract is read and judged.  That wallets[0] holds the collection   *)
(* rejects it in a hunt with skipIfOwned on whose balance read came through, *)
(* and in no other run: it is one of many criteria, each of which may fail. *)
Inspect(r) ==
    /\ run[r].at = "inspect"
    /\ Set(r, [run[r] EXCEPT !.at = "prepare"]) \/ GiveUp(r)
    /\ UNCHANGED <<ledger, mined, adrift>>

(* A candidate call passes eth_call from wallets[0] and its gas is           *)
(* estimated; the wallets that can pay it go ahead, and one whose balance    *)
(* cannot be read counts as poor.  No call or no wallet left ends the run.   *)
Prepare(r) ==
    /\ run[r].at = "prepare"
    /\ \/ \E funded \in SUBSET Wallets \ {{}}, g \in GasLimits :
             Set(r, [run[r] EXCEPT !.at = "prime", !.funded = funded, !.gas = g])
       \/ GiveUp(r)
    /\ UNCHANGED <<ledger, mined, adrift>>

(* NonceManager.prime: one request per wallet, all at once. *)
Prime(r, w) ==
    /\ run[r].at = "prime"
    /\ w \in run[r].funded /\ run[r].nonce[w] = Unprimed
    /\ Set(r, [run[r] EXCEPT !.nonce[w] = PendingNonce(w)])
    /\ UNCHANGED <<ledger, mined, adrift>>

PrimeFails(r) ==
    /\ run[r].at = "prime"
    /\ \E w \in run[r].funded : run[r].nonce[w] = Unprimed
    /\ GiveUp(r)
    /\ UNCHANGED <<ledger, mined, adrift>>

(* Every transaction is signed; in practice mode the run stops here. *)
Sign(r) ==
    /\ run[r].at = "prime"
    /\ \A w \in run[r].funded : run[r].nonce[w] # Unprimed
    /\ Set(r, [run[r] EXCEPT !.at = "submit"]) \/ GiveUp(r)
    /\ UNCHANGED <<ledger, mined, adrift>>

Answered(r, w, told) == [run[r] EXCEPT !.told[w] = told]

(* submitOne.  "already known" and "nonce too low" count as accepted; any    *)
(* other error, and no answer in time, as rejected.                          *)
SubmitOne(r, w) ==
    LET n == run[r].nonce[w] IN
    /\ run[r].at = "submit"
    /\ w \in run[r].funded /\ run[r].told[w] = "none"
    /\ \/ /\ Fresh(w, n)
          /\ \E told \in {"accepted", "rejected"} :     \* rejected: the answer was lost
                Takes(r, Answered(r, w, told), w, Mint(r))
       \/ /\ TooLow(w, n) \/ Known(w, n, Mint(r))
          /\ Set(r, Answered(r, w, "accepted"))
          /\ UNCHANGED <<ledger, adrift>>
       \/ /\ Set(r, Answered(r, w, "rejected"))
          /\ Missed(w, n, Mint(r))
    /\ UNCHANGED mined

(* waitForReceipts, over the accepted ones and until a deadline. *)
Receive(r, w) ==
    /\ run[r].at = "submit" /\ Sent(r)
    /\ w \in run[r].funded \ run[r].got /\ run[r].told[w] = "accepted"
    /\ HasReceipt(w, run[r].nonce[w], Mint(r))
    /\ LET won == IF ledger[w][run[r].nonce[w] + 1].ok THEN {w} ELSE {}
       IN Set(r, [run[r] EXCEPT !.got = @ \cup {w}, !.confirmed = @ \cup won])
    /\ UNCHANGED <<ledger, mined, adrift>>

(* The wallets whose receipts a fee is worked out from: once one mint has    *)
(* landed all of them, those of reverted mints included.                    *)
Billed(r) == IF run[r].confirmed = {} THEN {} ELSE run[r].got
Bills(r) == {<<w, run[r].nonce[w]>> : w \in Billed(r)}

(* The poll ends when every receipt is in, or at any time by its deadline. *)
EndPoll(r) ==
    /\ run[r].at = "submit" /\ Sent(r)
    /\ Set(r, [run[r] EXCEPT !.at = IF Billed(r) = {} THEN "done" ELSE "fee"])
    /\ UNCHANGED <<ledger, mined, adrift>>

Ended(r, fee) == [run[r] EXCEPT !.at = "done", !.fee = fee]

(* payServiceFee reads the nonce and balance of wallets[0] ...               *)
ReadForFee(r) ==
    /\ run[r].at = "fee"
    /\ \/ Set(r, [run[r] EXCEPT !.at = "charge", !.feeNonce = PendingNonce(First)])
       \/ \E fee \in {"none", "error"} :     \* billing is off, too little left, a read failed
             Set(r, Ended(r, fee))
    /\ UNCHANGED <<ledger, mined, adrift>>

(* ... and sends.  Every error, "already known" included, is reported as one. *)
Charge(r) ==
    LET n == run[r].feeNonce
        tx == FeeTx(run[r].contract, Bills(r)) IN
    /\ run[r].at = "charge"
    /\ \/ /\ Fresh(First, n)
          /\ \E fee \in {"paid", "error"} :     \* error: the answer was lost
                Takes(r, Ended(r, fee), First, tx)
       \/ /\ Set(r, Ended(r, "error"))
          /\ Missed(First, n, tx)
    /\ UNCHANGED mined

RunStep(r) ==
    \/ Inspect(r) \/ Prepare(r) \/ PrimeFails(r) \/ Sign(r)
    \/ \E w \in Wallets : Prime(r, w) \/ SubmitOne(r, w) \/ Receive(r, w)
    \/ EndPoll(r) \/ ReadForFee(r) \/ Charge(r)

Next ==
    \/ \E r \in Runs : Begin(r) \/ RunStep(r)
    \/ \E w \in Wallets : Mine(w) \/ ArrivesLate(w)

Spec == Init /\ [][Next]_vars

----------------------------------------------------------------------------
Fees == {i \in 1..Len(ledger[First]) : ledger[First][i].tx.kind = "fee"}

(* What a run reports as confirmed is its own transaction, executed without *)
(* a revert, whoever else used the wallet's nonces meanwhile.               *)
HonestReport ==
    \A r \in Runs : \A w \in run[r].confirmed :
        LET n == run[r].nonce[w] + 1 IN
        n <= mined[w] /\ ledger[w][n].tx = Mint(r) /\ ledger[w][n].ok

(* A fee the sequencer took was worked out from executed mints of the       *)
(* collection only, one of which at least has landed: "Nothing confirmed    *)
(* means nothing charged".  Reverted ones are in it ("the app bills for a   *)
(* result, not an attempt" holds of the batch, not of each mint of it).     *)
Executed(m, c) ==
    /\ m[2] + 1 <= mined[m[1]]
    /\ ledger[m[1]][m[2] + 1].tx.kind = "mint" /\ ledger[m[1]][m[2] + 1].tx.contract = c
Deserved(fee) ==
    /\ \A m \in fee.bills : Executed(m, fee.contract)
    /\ \E m \in fee.bills : ledger[m[1]][m[2] + 1].ok
FeeOnlyForResult == \A i \in Fees : Deserved(ledger[First][i].tx)

(* One executed mint is charged for twice only where a run signed it before *)
(* another's was taken at that nonce: a round and a press beside each other *)
(* both confirm the same transaction, and each works out its fee from it.   *)
ChargedOnce ==
    \A r, s \in Runs : \A m \in Bills(r) \cap Bills(s) :
        r # s => m[1] \in run[r].beaten \cup run[s].beaten

(* A transaction reported accepted reached the sequencer ("All of these     *)
(* mean the transaction reached the sequencer, so they are successes"),     *)
(* unless another one, of another run or given up long ago, was taken       *)
(* between the reading of the nonce and the answer.                         *)
AcceptedReached ==
    \A r \in Runs, w \in Wallets :
        run[r].told[w] = "accepted" =>
            Known(w, run[r].nonce[w], Mint(r)) \/ w \in run[r].beaten
=============================================================================
