----------------------------- MODULE Autopilot -----------------------------
(***************************************************************************)
(* src/autopilot.ts: the unattended minter.  The tracker reports a hot      *)
(* collection; handle() screens it, refuses it while another collection is  *)
(* being minted, and otherwise walks it through getCode/eth_call, a gas     *)
(* estimate, the two budget checks, nonce priming, signing, broadcast and   *)
(* receipts.  Every await of the walk is a step of its own here, so time    *)
(* passes and further hot events arrive between any two of them.            *)
(*                                                                          *)
(* Money is counted in abstract wei.  A transaction that may have reached   *)
(* the sequencer can cost up to perTx = value + gasLimit * maxFeePerGas, so *)
(* `exposed` (environment state, not a field of the class) adds perTx for   *)
(* each of them and never goes down: what the chain really charges is at    *)
(* most that.                                                               *)
(***************************************************************************)
EXTENDS Integers, Sequences, FiniteSets

CONSTANTS
    Contracts,         \* the collections the tracker can report
    NoContract,        \* the contract of an idle autopilot
    Denylist,          \* AutopilotConfig.denylist
    Allowlist,         \* AutopilotConfig.allowlist; {} means "anything"
    NumTx,             \* wallets.length * txPerWallet
    Values,            \* average ETH the tracker can have observed
    GasLimits,         \* what eth_estimateGas * 1.3 can come to
    MaxGasLimit, FeePerGas,
    TotalBudget, CollectionBudget,
    MaxPerHour,        \* maxCollectionsPerHour
    Hour,              \* 3_600_000 ms, in ticks
    MaxTime            \* bound on the model's clock

ASSUME AutopilotAssumption ==
    /\ NoContract \notin Contracts
    /\ NumTx \in Nat \ {0}
    /\ Values \subseteq Nat /\ GasLimits \subseteq Nat
    /\ MaxGasLimit \in Nat /\ FeePerGas \in Nat
    /\ TotalBudget \in Nat /\ CollectionBudget \in Nat
    /\ MaxPerHour \in Nat /\ Hour \in Nat /\ MaxTime \in Nat

VARIABLES
    config,      \* [freeOnly, dryRun], fixed for the life of the process
    now,         \* Date.now()
    spent,       \* spentWei
    mintedAt,    \* mintedAt
    handled,     \* handled
    busy,        \* busy
    job,         \* locals of the running mintCollection
    exposed,     \* worst-case wei of every transaction that reached the chain
    exposedOn,   \* the same, per collection
    firstSent    \* when a collection's first transaction reached the chain

vars == <<config, now, spent, mintedAt, handled, busy, job,
          exposed, exposedOn, firstSent>>

Steps == {"idle", "probe", "estimate", "prime", "submit", "receipts"}
Never == -1
Jobs == [step : Steps, contract : Contracts \cup {NoContract},
         value : Nat, gas : Nat, sent : 0 .. NumTx]

TypeOK ==
    /\ config \in [freeOnly : BOOLEAN, dryRun : BOOLEAN]
    /\ now \in Nat
    /\ spent \in Nat
    /\ mintedAt \in Seq(Nat)
    /\ handled \subseteq Contracts
    /\ busy \in BOOLEAN
    /\ job \in Jobs
    /\ exposed \in Nat
    /\ exposedOn \in [Contracts -> Nat]
    /\ firstSent \in [Contracts -> Nat \cup {Never}]

Idle == [step |-> "idle", contract |-> NoContract, value |-> 0, gas |-> 0, sent |-> 0]

Init ==
    /\ config \in [freeOnly : BOOLEAN, dryRun : BOOLEAN]
    /\ now = 0
    /\ spent = 0 /\ mintedAt = <<>> /\ handled = {} /\ busy = FALSE
    /\ job = Idle
    /\ exposed = 0
    /\ exposedOn = [c \in Contracts |-> 0]
    /\ firstSent = [c \in Contracts |-> Never]

----------------------------------------------------------------------------
(* Mutated forms the checks substitute: each is a slip this code could have. *)

RecentStrict == Cardinality({i \in DOMAIN mintedAt : mintedAt[i] > now - Hour})
OneTooMany == job.sent <= NumTx
ScreenNoHandled(c, free, value) ==
    /\ c \notin Denylist
    /\ Allowlist # {} => c \in Allowlist
    /\ config.freeOnly => free /\ value = 0
    /\ Cardinality({i \in DOMAIN mintedAt : mintedAt[i] >= now - Hour}) < MaxPerHour
    /\ spent < TotalBudget
NoRelease == UNCHANGED busy
WorstCaseOneWallet(value, gas) == value + gas * FeePerGas

----------------------------------------------------------------------------
(* screen(): the reasons a hot collection is turned away before any call. *)

Recent == Cardinality({i \in DOMAIN mintedAt : mintedAt[i] >= now - Hour})

Screen(c, free, value) ==
    /\ c \notin handled
    /\ c \notin Denylist
    /\ Allowlist # {} => c \in Allowlist
    /\ config.freeOnly => free /\ value = 0
    /\ Recent < MaxPerHour
    /\ spent < TotalBudget

(* handle() up to its first await.  A collection that arrives while the     *)
(* autopilot is busy, or that screen() rejects, leaves no trace at all.     *)
Handle(c, free, value) ==
    /\ Screen(c, free, value)
    /\ ~busy
    /\ busy' = TRUE
    /\ handled' = handled \cup {c}
    /\ job' = [step |-> "probe", contract |-> c, gas |-> 0, sent |-> 0,
               value |-> IF config.freeOnly THEN 0 ELSE value]
    /\ UNCHANGED <<config, now, spent, mintedAt, exposed, exposedOn, firstSent>>

(* The finally block of handle(). *)
Release == busy' = FALSE

EndJob ==
    /\ Release
    /\ job' = Idle
    /\ UNCHANGED <<config, now, spent, mintedAt, handled, exposed, exposedOn, firstSent>>

Goto(step) ==
    /\ job' = [job EXCEPT !.step = step]
    /\ UNCHANGED <<config, now, spent, mintedAt, handled, busy,
                   exposed, exposedOn, firstSent>>

(* buildAutoMintCall, eth_getCode and eth_call: any of them may throw. *)
Probe ==
    /\ job.step = "probe"
    /\ Goto("estimate") \/ EndJob

WorstCase(value, gas) == (value + gas * FeePerGas) * NumTx

WithinBudgets(gas) ==
    /\ gas <= MaxGasLimit
    /\ WorstCase(job.value, gas) <= CollectionBudget
    /\ WorstCase(job.value, gas) <= TotalBudget - spent

(* The gas estimate (the cap itself when the call fails), the gas cap and   *)
(* the budget checks that follow it without another await.                  *)
Estimate ==
    /\ job.step = "estimate"
    /\ \E gas \in GasLimits \cup {MaxGasLimit} :
          \/ /\ WithinBudgets(gas)
             /\ job' = [job EXCEPT !.step = "prime", !.gas = gas]
             /\ UNCHANGED <<config, now, spent, mintedAt, handled, busy,
                            exposed, exposedOn, firstSent>>
          \/ ~WithinBudgets(gas) /\ EndJob

(* nonces.prime may throw; signing is local; a dry run stops here. *)
Prime ==
    /\ job.step = "prime"
    /\ \/ ~config.dryRun /\ Goto("submit")
       \/ EndJob

PerTx == job.value + job.gas * FeePerGas

MoreToSend == job.sent < NumTx

(* One submitOne of the batch: the race over the endpoints may or may not   *)
(* have put the transaction in front of the sequencer, whatever it reports. *)
SubmitOne ==
    /\ job.step = "submit"
    /\ MoreToSend
    /\ job' = [job EXCEPT !.sent = @ + 1]
    /\ \/ /\ exposed' = exposed + PerTx
          /\ exposedOn' = [exposedOn EXCEPT ![job.contract] = @ + PerTx]
          /\ firstSent' = [firstSent EXCEPT ![job.contract] = IF @ = Never THEN now ELSE @]
       \/ UNCHANGED <<exposed, exposedOn, firstSent>>
    /\ UNCHANGED <<config, now, spent, mintedAt, handled, busy>>

(* submitAll has resolved: the batch is booked at its worst case. *)
Book ==
    /\ job.step = "submit"
    /\ job.sent = NumTx
    /\ spent' = spent + WorstCase(job.value, job.gas)
    /\ mintedAt' = Append(mintedAt, now)
    /\ job' = [job EXCEPT !.step = "receipts"]
    /\ UNCHANGED <<config, now, handled, busy, exposed, exposedOn, firstSent>>

(* waitForReceipts returns by its own deadline, mined or not. *)
Receipts == job.step = "receipts" /\ EndJob

Tick ==
    /\ now < MaxTime
    /\ now' = now + 1
    /\ UNCHANGED <<config, spent, mintedAt, handled, busy, job,
                   exposed, exposedOn, firstSent>>

JobStep == Probe \/ Estimate \/ Prime \/ SubmitOne \/ Book \/ Receipts

Next ==
    \/ \E c \in Contracts, free \in BOOLEAN, value \in Values : Handle(c, free, value)
    \/ JobStep
    \/ Tick

Spec == Init /\ [][Next]_vars

(* Every await in mintCollection ends: RpcClient destroys a request after   *)
(* timeoutMs and waitForReceipts has a deadline.  Taken for granted: no     *)
(* answer is broken off after its headers (BrokenOff of BotRun).            *)
FairSpec == Spec /\ WF_vars(JobStep)

----------------------------------------------------------------------------
(* The process never puts more ETH at risk than AUTO_TOTAL_BUDGET, counting *)
(* every transaction that may have reached the sequencer, including those   *)
(* of a batch not booked yet.  (totalBudgetWei: "this process may spend,    *)
(* ever".)                                                                  *)
BudgetHeld == exposed <= TotalBudget

(* No single collection ever puts more than its own cap at risk, over all   *)
(* the times it can be reported hot.                                        *)
CollectionCapHeld == \A c \in Contracts : exposedOn[c] <= CollectionBudget

(* At no instant have more than MaxPerHour collections had their first      *)
(* transaction sent within the hour before it, although the cap is tested   *)
(* when a collection arrives and the hour is counted from its booking.      *)
HourlyCapHeld ==
    Cardinality({c \in Contracts : firstSent[c] # Never /\ firstSent[c] >= now - Hour})
        <= MaxPerHour

(* The serialising flag is always given back: no throw, refusal or timeout  *)
(* of a collection leaves the autopilot busy for good.                      *)
AlwaysReleased == busy ~> ~busy

(* The strengthening the proofs use: what is at risk is covered by what is  *)
(* booked plus what the running batch has passed its budget checks for.     *)
InFlight == IF job.step = "submit" THEN job.sent * PerTx ELSE 0
Reserved == IF job.step \in {"prime", "submit"} THEN WorstCase(job.value, job.gas) ELSE 0

BusyInv ==
    /\ busy <=> job.step # "idle"
    /\ job.step # "idle" => job.contract \in handled

BudgetInv ==
    /\ exposed <= spent + InFlight
    /\ spent + Reserved <= TotalBudget

CollectionInv ==
    /\ \A c \in Contracts :
          c \notin handled \/ (c = job.contract /\ job.step \in {"probe", "estimate", "prime"})
             => exposedOn[c] = 0
    /\ job.step \in {"prime", "submit"} => WorstCase(job.value, job.gas) <= CollectionBudget
    /\ job.step = "submit" => exposedOn[job.contract] <= job.sent * PerTx
    /\ \A c \in Contracts :
          (job.step = "submit" => c # job.contract) => exposedOn[c] <= CollectionBudget

(* The hourly cap: whatever the instant t, no more collections were begun   *)
(* since t than were booked since t, the one being sent left out; and from  *)
(* the moment a collection is let in until it is booked, fewer than         *)
(* MaxPerHour bookings are recent.                                          *)
BegunSince(t) == {c \in Contracts : firstSent[c] # Never /\ firstSent[c] >= t}
BookedSince(t) == {i \in DOMAIN mintedAt : mintedAt[i] >= t}
Unbooked == IF job.step = "submit" THEN {job.contract} ELSE {}

HourInv ==
    /\ IsFiniteSet(handled)
    /\ \A c \in Contracts :
          /\ firstSent[c] <= now
          /\ c \notin handled \/ (c = job.contract /\ job.step \in {"probe", "estimate", "prime"})
                => firstSent[c] = Never
    /\ \A t \in (0 - Hour) .. now :
          Cardinality(BegunSince(t) \ Unbooked) <= Cardinality(BookedSince(t))
    /\ job.step \in {"probe", "estimate", "prime", "submit"} => Recent < MaxPerHour
============================================================================
