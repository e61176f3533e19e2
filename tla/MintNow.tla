------------------------------- MODULE MintNow -------------------------------
(***************************************************************************)
(* From a row to transactions: POST /api/mintnow (src/routes/mintnow.ts) on *)
(* a row of the cache, and a hunt that found a collection qualified, both   *)
(* through mintCandidate (src/hunt.ts), which lets the chain choose among   *)
(* the ways to build the call and sends it from every funded wallet.  How   *)
(* transactions travel and are paid for is in MintBatch.                    *)
(***************************************************************************)
EXTENDS LiveBoard

CONSTANTS
    Wallets, First,       \* our wallets and wallets[0]
    Runs,                 \* the functions each address runs, with the role of each word
    MaxValue              \* criteria.maxPriceWei

(* What a feed and a chain are made of: an address is no number; who signs   *)
(* a transaction is no contract; amounts of wei are numbers; a signature     *)
(* that cannot be read names nobody.                                         *)
ASSUME FeedAssumption ==
    /\ Addresses \cap Int = {} /\ Targets \subseteq Addresses
    /\ First \in Wallets /\ Wallets \subseteq Addresses \ Targets
    /\ NoSender \notin Addresses \cup Int
    /\ Feed \subseteq [to : Addresses, fn : STRING, words : Seq(Addresses \cup Nat),
                      from : (Addresses \ Targets) \cup {NoSender}, value : Nat]
    /\ MaxValue \in Nat
    /\ \A c \in Targets, i \in DOMAIN PRICE_FNS :
          PRICE_FNS[i] \in DOMAIN Answers[c] => Answers[c][PRICE_FNS[i]] \in Nat

(* PROXY_MINT_SELECTORS: these functions, and no others, take the collection *)
(* as their first word, and they mean the same at every contract.            *)
ASSUME ProxyAssumption ==
    \A a \in DOMAIN Runs : \A fn \in DOMAIN Runs[a] :
        /\ Runs[a][fn] \in Seq(STRING)
        /\ {i \in DOMAIN Runs[a][fn] : Runs[a][fn][i] = "collection"} = IF fn \in ProxyFns THEN {1} ELSE {}
        /\ fn \in ProxyFns => \A b \in DOMAIN Runs : fn \in DOMAIN Runs[b] => Runs[b][fn] = Runs[a][fn]

VARIABLES
    plan,      \* what mintCandidate was called with
    sent,      \* the calls it sent
    full       \* the recipients the collection refuses while it works

mintVars == <<plan, sent, full>>
mintNowVars == <<boardVars, mintVars>>

NoPlan == [collection |-> NoTarget]

MintNowInit ==
    /\ BoardInit
    /\ plan = NoPlan /\ sent = {} /\ full = {}

----------------------------------------------------------------------------
(* Mutated forms the checks substitute: each is a slip this code could have. *)

WaysBackwards(p) ==
    {[way EXCEPT !.rank = -@] : way \in buildAutoMintCalls(p.sample, p.sample.from, p.quantity)}

----------------------------------------------------------------------------
(* What the chain does with a call: external. *)

Roles(call) == Runs[call.to][call.fn]
RoleOf(call, role) == {i \in DOMAIN Roles(call) : Roles(call)[i] = role}
WordOf(call, role, otherwise) ==
    IF RoleOf(call, role) = {} THEN otherwise ELSE call.words[CHOOSE i \in RoleOf(call, role) : TRUE]

Mints(call) == WordOf(call, "collection", call.to)
Recipient(call) == WordOf(call, "recipient", call.from)
PriceOf(c) == LET p == probeFirst(Answers[c], {}, PRICE_FNS) IN IF Known(p) THEN p ELSE 0

Works(call, refused) ==
    /\ call.to \in DOMAIN Runs /\ call.fn \in DOMAIN Runs[call.to]
    /\ Len(call.words) = Len(Roles(call))
    /\ Mints(call) \in Targets
    /\ Recipient(call) \in Addresses \ refused
    /\ WordOf(call, "quantity", 1) \in Nat
    /\ call.value = PriceOf(Mints(call)) * WordOf(call, "quantity", 1)

----------------------------------------------------------------------------
(* The two callers of mintCandidate. *)

Plan(c, sendTo, row, price, freeOnly, info) ==
    LET value == IF freeOnly THEN 0 ELSE Min({price, MaxValue}) IN
    [collection |-> c, sendTo |-> sendTo, sample |-> row.sample, value |-> value,
     quantity |-> IF freeOnly /\ Known(info.maxPerWallet) THEN info.maxPerWallet ELSE 1]

recallLiveMint(c) == cache[c]

(* The Mint button: no criteria, but the contract has to look like a        *)
(* collection that is not sold out, and the price to be within the ceiling. *)
Press(c) ==
    /\ plan = NoPlan
    /\ recallLiveMint(c) # NoRow
    /\ LET row == recallLiveMint(c)
           info == inspectContract(Answers[c], {})
       IN  /\ kind(info) # "unverified" /\ info.isNft # FALSE /\ ~info.supply.soldOut
           /\ row.price <= MaxValue
           /\ plan' = Plan(c, IF row.mintVia = NoVia THEN c ELSE row.mintVia,
                           row, row.price, row.price = 0, info)
    /\ UNCHANGED <<boardVars, sent, full>>

(* A hunt that found the collection qualified in its snapshot: it sends to  *)
(* the collection itself, whichever contract the sample was sent to.        *)
Qualify(c) ==
    /\ plan = NoPlan
    /\ LET row == collectSnapshot[c]
           info == inspectContract(Answers[c], {})
       IN  /\ row # NoRow /\ row.sample # NoSample
           /\ kind(info) # "unverified" /\ ~info.supply.soldOut
           /\ \E freeOnly \in BOOLEAN :
                 /\ row.value <= IF freeOnly THEN 0 ELSE MaxValue
                 /\ plan' = Plan(c, c, row, row.value, freeOnly, info)
    /\ AnswerOnly
    /\ UNCHANGED <<sent, full>>

----------------------------------------------------------------------------
Ways(p) == buildAutoMintCalls(p.sample, p.sample.from, p.quantity)

CallOf(p, way, wallet) ==
    [to |-> p.sendTo, fn |-> p.sample.fn, words |-> buildFor(way, wallet).words,
     value |-> p.value, from |-> wallet]

(* The first way that a simulation from wallets[0] lets through. *)
FirstPassing(p, refused) ==
    LET Passes(way) == Works(CallOf(p, way, First), refused)
    IN  {way \in Ways(p) : Passes(way) /\
            \A other \in Ways(p) : other.rank < way.rank => ~Passes(other)}

Prepared(p, ways, wallets) == {CallOf(p, way, wallet) : way \in ways, wallet \in wallets}

(* It is sent from the wallets that can pay; without such a way or wallet,  *)
(* or in practice mode, nothing is.                                         *)
mintCandidate ==
    /\ plan # NoPlan /\ sent = {}
    /\ \E refused \in SUBSET (Wallets \cup {plan.sample.from}), funded \in SUBSET Wallets :
          /\ sent' = Prepared(plan, FirstPassing(plan, refused), funded)
          /\ full' = IF sent' = {} THEN {} ELSE refused
          /\ plan' = IF sent' = {} THEN NoPlan ELSE plan
    /\ UNCHANGED boardVars

Report ==
    /\ sent # {}
    /\ plan' = NoPlan /\ sent' = {} /\ full' = {}
    /\ UNCHANGED boardVars

MintNowNext ==
    \/ BoardNext /\ UNCHANGED mintVars
    \/ \E c \in Targets : Press(c) \/ Qualify(c)
    \/ mintCandidate \/ Report

MintNowSpec == MintNowInit /\ [][MintNowNext]_mintNowVars

----------------------------------------------------------------------------
(* Every transaction that is sent mints the collection that was chosen, for *)
(* no more than the ceiling; and where the sample minted to its own sender  *)
(* it mints to the wallet that sends it, unless the collection refuses      *)
(* wallets[0] (mintcall.ts: "Replaying such a payload verbatim mints the    *)
(* NFT to the wallet we copied from"; refused, the verbatim way is tried    *)
(* after the others and does exactly that).                                 *)
OwnMint(sample) ==
    sample.to \in DOMAIN Runs /\ sample.fn \in DOMAIN Runs[sample.to] /\ Recipient(sample) = sample.from
SendsWhatWasSeen ==
    \A call \in sent :
        /\ Mints(call) = plan.collection
        /\ call.value <= MaxValue
        /\ OwnMint(plan.sample) /\ First \notin full => Recipient(call) = call.from

(* What the cache's mintVia takes for granted: where the feed sends a mint   *)
(* through a drop contract there is nothing that mints of its own.           *)
DropContractsApart ==
    \A tx \in Feed : tx.fn \in ProxyFns /\ tx.to \in DOMAIN Runs => DOMAIN Runs[tx.to] \subseteq ProxyFns

(* On redis no press replays anything once no board has been built for the  *)
(* lifetime of the cache (liveCache: "a stale entry would send a mint at a  *)
(* sale that closed"); a cache none of whose EXPIREs came through stays.    *)
QuietBoardExpires ==
    [][\A c \in Targets :
          Press(c) /\ driver = "redis" /\ left # Never => quiet < TTL]_plan
============================================================================
