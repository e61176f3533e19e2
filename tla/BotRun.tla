------------------------------- MODULE BotRun -------------------------------
(***************************************************************************)
(* The timed mint: run() of src/bot.ts, from the command line with any      *)
(* trigger of src/triggers.ts, or from POST /api/mint (src/service.ts) with *)
(* trigger "now" and a spend ceiling.  Nonces are read and transactions     *)
(* signed before the trigger, several per wallet; at the trigger each of    *)
(* them goes to every endpoint at once, and raceSubmit (src/rpc.ts) reports *)
(* the first success, or the first failure when there is none.  A request   *)
(* may arrive after its sender gave up on it, and other parts of the        *)
(* program use the same wallets meanwhile.                                  *)
(***************************************************************************)
EXTENDS Integers, Sequences, FiniteSets

CONSTANTS
    Wallets, TxPerWallet,
    Endpoints,          \* submit-only endpoints and the healthy RPC ones
    Value, Fee,         \* mint.value and gas.maxFeePerGas
    GasLimits,          \* what GAS_LIMIT or an estimate times the multiplier come to
    AssumedGas,         \* 400_000n of runMintService
    Ceiling,            \* MAX_MINT_VALUE_ETH
    FireAt,             \* fireAtMs - leadMs
    Foreign,            \* a transaction of a wallet that this run did not sign
    MaxForeign, MaxTime \* bounds of the model

Txs == Wallets \X (1..TxPerWallet)

ASSUME BotRunAssumption ==
    /\ IsFiniteSet(Wallets) /\ IsFiniteSet(Endpoints) /\ Endpoints # {}
    /\ TxPerWallet \in Nat \ {0}
    /\ {Value, Fee, AssumedGas, Ceiling, FireAt, MaxForeign, MaxTime} \subseteq Nat
    /\ GasLimits \subseteq Nat
    /\ Foreign \notin Txs

VARIABLES
    run,      \* the locals of run()
    try,      \* each request of each race
    race,     \* what raceSubmit knows of each transaction
    ledger,   \* per wallet, the transactions the sequencer took, in nonce order
    mined,    \* per wallet, how many of them have been executed
    now,      \* Date.now()
    open      \* the sale is open on chain

vars == <<run, try, race, ledger, mined, now, open>>

Unprimed == -1
Steps == {"preflight", "prime", "armed", "race", "done", "threw", "dry", "hung"}
Ended == {"done", "threw", "dry"}
RunTypes ==
    [at : Steps, mode : {"now", "time", "poll", "feed"}, api : BOOLEAN, dry : BOOLEAN,
     configured : BOOLEAN,                     \* GAS_LIMIT is set
     gas : GasLimits,
     nonce : [Wallets -> Nat \cup {Unprimed}],
     seen : [Wallets -> Nat]]                  \* history: the ledger's length at prime

(* A request is under way, or timed out while it may still arrive, or was    *)
(* answered with a hash or an error; or its answer was broken off halfway,   *)
(* after which sendRaw (rpc.ts:135) neither resolves nor rejects.            *)
Requests == {"unsent", "flying", "adrift", "ok", "failed", "broken"}
Races == [first : {"none", "known", "error"}, told : {"none", "accepted", "rejected"}]

TypeOK ==
    /\ run \in RunTypes
    /\ try \in [Txs -> [Endpoints -> Requests]]
    /\ race \in [Txs -> Races]
    /\ ledger \in [Wallets -> Seq(Txs \cup {Foreign})]
    /\ mined \in [Wallets -> Nat]
    /\ now \in Nat /\ open \in BOOLEAN
    /\ \A w \in Wallets : mined[w] <= Len(ledger[w])
    /\ \A tx \in Txs : race[tx].told # "none" <=>
          \/ \E e \in Endpoints : try[tx][e] = "ok"
          \/ \A e \in Endpoints : try[tx][e] \notin {"unsent", "flying", "broken"}

Init ==
    /\ run \in [at : {"preflight"}, mode : {"now", "time", "poll", "feed"}, api : BOOLEAN,
                dry : BOOLEAN, configured : BOOLEAN, gas : GasLimits,
                nonce : {[w \in Wallets |-> Unprimed]},
                seen : {[w \in Wallets |-> 0]}]
    /\ run.api => run.mode = "now"                        \* buildEnv
    /\ try = [tx \in Txs |-> [e \in Endpoints |-> "unsent"]]
    /\ race = [tx \in Txs |-> [first |-> "none", told |-> "none"]]
    /\ ledger = [w \in Wallets |-> <<>>] /\ mined = [w \in Wallets |-> 0]
    /\ now = 0 /\ open = FALSE

World == <<ledger, mined, now, open>>
Batch == TxPerWallet * Cardinality(Wallets)
Committed == (Value + run.gas * Fee) * Batch           \* totalCommitment
Nonce(tx) == run.nonce[tx[1]] + tx[2] - 1              \* NonceManager.allocate

----------------------------------------------------------------------------
(* Mutated forms the checks substitute: each is a slip this code could have. *)

ProjectedOneTx == Value + (IF run.configured THEN run.gas ELSE AssumedGas) * Fee
FirstAnswer(tx, others, first, answer) == IF answer = "error" THEN "rejected" ELSE "accepted"
AnySuccessOrNever(tx, others, first, answer) == IF answer = "ok" THEN "accepted" ELSE "none"
ExecutedNonce(w) == mined[w]
ReadyAtInstant ==
    \/ run.mode = "now"
    \/ run.mode = "time" /\ now = FireAt
    \/ run.mode = "poll" /\ open

----------------------------------------------------------------------------
(* The sequencer and the chain. *)
PendingNonce(w) == Len(ledger[w])
Taken(tx) == \E i \in 1..Len(ledger[tx[1]]) : ledger[tx[1]][i] = tx
Take(w, tx) == ledger' = [ledger EXCEPT ![w] = Append(@, tx)]

(* What a transaction that arrives is answered: taken when its nonce is the  *)
(* next one, "already known" or "nonce too low" when it is not news, and     *)
(* refused otherwise (the nonce is too high, or another holds it).           *)
Fresh(tx) == Nonce(tx) = Len(ledger[tx[1]])
Old(tx) == Taken(tx) \/ Nonce(tx) < mined[tx[1]]
Verdict(tx) == IF Fresh(tx) THEN "ok" ELSE IF Old(tx) THEN "known" ELSE "error"
Arrival(tx) == IF Fresh(tx) THEN Take(tx[1], tx) ELSE UNCHANGED ledger

Mine(w) ==
    /\ mined[w] < Len(ledger[w])
    /\ mined' = [mined EXCEPT ![w] = @ + 1]
    /\ UNCHANGED <<run, try, race, ledger, now, open>>

(* A hunt, the Mint button or the operator's own wallet software.            *)
Other(w) ==
    /\ Cardinality({i \in 1..Len(ledger[w]) : ledger[w][i] = Foreign}) < MaxForeign
    /\ Take(w, Foreign)
    /\ UNCHANGED <<run, try, race, mined, now, open>>

(* Only the timed trigger reads the clock. *)
Tick ==
    /\ now < MaxTime /\ run.mode = "time"
    /\ now' = now + 1
    /\ UNCHANGED <<run, try, race, ledger, mined, open>>

----------------------------------------------------------------------------
AllTold == \A tx \in Txs : race[tx].told # "none"

(* Preparation.  Every await may throw, and then the run is over.            *)
Throw ==
    /\ run.at \in {"preflight", "prime"}
    /\ run' = [run EXCEPT !.at = "threw"]
    /\ UNCHANGED <<try, race, World>>

(* A read whose answer is broken off is awaited for ever, by every stage of  *)
(* the run that reads.                                                       *)
Hang ==
    /\ \/ run.at \in {"preflight", "prime"}
       \/ run.at = "armed" /\ run.mode = "poll"
       \/ run.at = "race" /\ AllTold
    /\ run' = [run EXCEPT !.at = "hung"]
    /\ UNCHANGED <<try, race, World>>

(* assertWithinCeiling, before anything is asked of the chain: the gas limit *)
(* is taken as configured, or as 400,000 when it is still to be estimated.   *)
Projected == (Value + (IF run.configured THEN run.gas ELSE AssumedGas) * Fee) * Batch
Allowed == run.api => Projected <= Ceiling

(* runPreflight, checkBalances: run.gas is preflight.gasLimit from here on.  *)
Preflight ==
    /\ run.at = "preflight"
    /\ Allowed
    /\ run' = [run EXCEPT !.at = "prime"]
    /\ UNCHANGED <<try, race, World>>

(* NonceManager.prime, one request per wallet. *)
Prime(w) ==
    /\ run.at = "prime" /\ run.nonce[w] = Unprimed
    /\ run' = [run EXCEPT !.nonce[w] = PendingNonce(w), !.seen[w] = Len(ledger[w])]
    /\ UNCHANGED <<try, race, World>>

Presign ==
    /\ run.at = "prime" /\ \A w \in Wallets : run.nonce[w] # Unprimed
    /\ run' = [run EXCEPT !.at = IF run.dry THEN "dry" ELSE "armed"]
    /\ UNCHANGED <<try, race, World>>

----------------------------------------------------------------------------
(* waitForTrigger.  A poll that fails or finds the sale closed changes       *)
(* nothing; the feed resolves only while it listens (SaleOpens).             *)
Ready ==
    \/ run.mode = "now"
    \/ run.mode = "time" /\ now >= FireAt
    \/ run.mode = "poll" /\ open

(* submitAll: every transaction to every endpoint, at the same time. *)
Fired == /\ run' = [run EXCEPT !.at = "race"]
         /\ try' = [tx \in Txs |-> [e \in Endpoints |-> "flying"]]

Fire ==
    /\ run.at = "armed" /\ Ready
    /\ Fired
    /\ UNCHANGED <<race, World>>

(* The team opens the sale.  The feed shows that transaction once, to those  *)
(* who listen and are connected.                                             *)
SaleOpens ==
    /\ run.mode \in {"poll", "feed"}                        \* nobody else looks
    /\ ~open /\ open' = TRUE
    /\ \/ UNCHANGED <<run, try>>
       \/ run.at = "armed" /\ run.mode = "feed" /\ Fired
    /\ UNCHANGED <<race, ledger, mined, now>>

----------------------------------------------------------------------------
(* raceSubmit and classifyError.  `others` are the requests still under way. *)
Told(tx, others, first, answer) ==
    IF answer = "ok" THEN "accepted"
    ELSE IF others # {} THEN "none"
    ELSE IF first = "known" THEN "accepted" ELSE "rejected"

Settle(tx, e, status, answer) ==
    LET others == {f \in Endpoints \ {e} : try[tx][f] \in {"flying", "broken"}}
        first == IF race[tx].first = "none" /\ answer # "ok" THEN answer ELSE race[tx].first
    IN  /\ try' = [try EXCEPT ![tx][e] = status]
        /\ race' = [race EXCEPT ![tx] =
              [first |-> first,
               told |-> IF @.told = "none" THEN Told(tx, others, first, answer) ELSE @.told]]

(* A request arrives and is answered, or its answer is lost.                 *)
Answered(tx, e) ==
    /\ try[tx][e] = "flying"
    /\ Arrival(tx)
    /\ \/ Settle(tx, e, IF Verdict(tx) = "ok" THEN "ok" ELSE "failed", Verdict(tx))
       \/ Settle(tx, e, "failed", "error")
    /\ UNCHANGED <<run, mined, now, open>>

(* It arrives, and its answer stops halfway without an error of the socket.  *)
BrokenOff(tx, e) ==
    /\ try[tx][e] = "flying"
    /\ Arrival(tx)
    /\ try' = [try EXCEPT ![tx][e] = "broken"]
    /\ UNCHANGED <<run, race, mined, now, open>>

(* It times out before it arrives, and may arrive later.                     *)
TimesOut(tx, e) ==
    /\ try[tx][e] = "flying"
    /\ Settle(tx, e, "adrift", "error")
    /\ UNCHANGED <<run, World>>

ArrivesLate(tx, e) ==
    /\ try[tx][e] = "adrift"
    /\ Arrival(tx)
    /\ try' = [try EXCEPT ![tx][e] = "failed"]
    /\ UNCHANGED <<run, race, mined, now, open>>

----------------------------------------------------------------------------
(* waitForReceipts: every receipt is in, or a minute has passed. *)
Finish ==
    /\ run.at = "race" /\ AllTold
    /\ run' = [run EXCEPT !.at = "done"]
    /\ UNCHANGED <<try, race, World>>

Request == \E tx \in Txs, e \in Endpoints : Answered(tx, e) \/ BrokenOff(tx, e) \/ TimesOut(tx, e)
Prepare == Throw \/ Preflight \/ Presign \/ \E w \in Wallets : Prime(w)

Next ==
    \/ Prepare \/ Hang \/ Fire \/ Request \/ Finish
    \/ \E tx \in Txs, e \in Endpoints : ArrivesLate(tx, e)
    \/ \E w \in Wallets : Mine(w) \/ Other(w)
    \/ SaleOpens \/ Tick

Spec == Init /\ [][Next]_vars

(* RpcClient gives up on every request after 10 s and waitForReceipts after  *)
(* 60 s; the timer comes back (preciseSleepUntil), and once the sale is open *)
(* some poll is answered.  A broken answer is an action, and not fair.       *)
(* Nothing makes the team open the sale or the chain execute anything.       *)
FairSpec == /\ Spec
            /\ WF_vars(Prepare) /\ WF_vars(Fire) /\ WF_vars(Request) /\ WF_vars(Finish)
            /\ WF_vars(Tick)

----------------------------------------------------------------------------
(* Properties. *)

(* A transaction that any endpoint acknowledged is never reported rejected,  *)
(* however the other endpoints answered and in which order (rpc.ts:281).     *)
AckedIsAccepted ==
    \A tx \in Txs : (\E e \in Endpoints : try[tx][e] = "ok") => race[tx].told = "accepted"

(* When nobody else used the wallet since its nonce was read, accepted       *)
(* means that the sequencer has the transaction: "already known" and "nonce  *)
(* too low" can only be about this very one (submit.ts:30).                  *)
AcceptedArrived ==
    \A tx \in Txs :
        /\ race[tx].told = "accepted"
        /\ \A i \in 1..Len(ledger[tx[1]]) : ledger[tx[1]][i] = Foreign => i <= run.seen[tx[1]]
        => Taken(tx)

(* What a run started over HTTP commits stays under the operator's ceiling    *)
(* when the gas limit is configured or its estimate is no more than assumed  *)
(* (service.ts:79).                                                          *)
CeilingHeld ==
    /\ run.api /\ run.at \in {"armed", "race", "done"}
    /\ run.configured \/ run.gas <= AssumedGas
    => Committed <= Ceiling

(* Once the moment of an armed run has come it ends, whatever the endpoints   *)
(* answer, unless a response was broken off (triggers.ts:40, rpc.ts:176):    *)
(* that is the only thing that holds it up.                                  *)
HeldUp == run.at = "hung" \/ \E tx \in Txs, e \in Endpoints : try[tx][e] = "broken"
EndsOnceReady ==
    (run.at = "armed" /\ run.mode # "feed" /\ (run.mode = "poll" => open))
        ~> (run.at \in Ended \/ HeldUp)
============================================================================
