-------------------------------- MODULE Judge --------------------------------
(***************************************************************************)
(* How a hunt cycle comes to its verdict on one collection (runHuntCycle of *)
(* src/hunt.ts): the criteria the request asked for, the filter before any  *)
(* contract read, the reads, any of which may fail, the verdict, and what   *)
(* of it is kept in the history.                                            *)
(***************************************************************************)
EXTENDS Criteria

CONSTANTS
    Server,               \* the criteria of the deployment
    Asked,                \* what requests may ask for: functions of criteria
    Sampled,              \* what the feed may show
    Contracts,            \* what the collection may be
    MaxUnread             \* bound: reads of one inspection that fail

DialNames == {"minMintsPerMinute", "minUniqueMinters", "minAttemptsInWindow",
              "maxAgeSec", "maxSelloutSec", "maxSupplyProgress"}

(* No dial moves the price; the dials reach every progress of a supply      *)
(* (ADJUSTABLE), while the deployment's own numbers may be beyond them; what *)
(* a feed or a contract says is of its type, and no answer is the absence   *)
(* of one.                                                                  *)
ASSUME DialAssumption ==
    /\ DOMAIN Dials = DialNames
    /\ \A key \in DialNames : /\ Dials[key].min \in Int /\ Dials[key].max \in Int
                               /\ Dials[key].min <= Dials[key].max
    /\ Dials.maxSupplyProgress.max >= 10000

ASSUME JudgeAssumption ==
    /\ DOMAIN Server = DialNames \cup Flags \cup {"maxPrice"} /\ Server.maxPrice \in Nat
    /\ \A key \in DialNames : Server[key] \in Int
    /\ \A overrides \in Asked, key \in DialNames :
          key \in DOMAIN overrides => overrides[key] \in Int
    /\ \A c \in Contracts : \A fn \in DOMAIN c : c[fn] # NoAnswer
    /\ \A c \in Contracts, fn \in {"totalSupply", "totalMinted", "maxSupply", "MAX_SUPPLY"} :
          fn \in DOMAIN c => c[fn] \in Nat
    /\ Sampled # {} /\ Contracts # {}

ASSUME RowAssumption ==
    \A c \in Sampled : /\ c.attemptsPerMinute \in Int /\ c.uniqueMinters \in Int
                       /\ c.attemptsInWindow \in Int /\ c.ageSec \in Int

(* undefined is neither true nor false. *)
ASSUME AnswerAssumption == NoAnswer # TRUE /\ NoAnswer # FALSE

VARIABLES
    phase, criteria,
    collection,           \* what the feed shows of it
    contract,             \* what it is
    unread,               \* the reads of it that failed
    info, checks          \* what is known of it, and the verdict

vars == <<phase, criteria, collection, contract, unread, info, checks>>

Nobody == CHOOSE c \in Sampled : TRUE
Unseen == CHOOSE c \in Contracts : TRUE

Init ==
    /\ phase = "asked"
    /\ criteria \in {mergeCriteria(Server, overrides) : overrides \in Asked}
    /\ collection = Nobody /\ contract = Unseen
    /\ unread = {} /\ info = NoInfo /\ checks = {}

----------------------------------------------------------------------------
(* Mutated forms the checks substitute: each is a slip this code could have. *)

StrictPrefilter(c) ==
    /\ c.status = "live" \/ ~criteria.requireLive
    /\ c.ageSec < criteria.maxAgeSec
    /\ c.attemptsInWindow >= criteria.minAttemptsInWindow
    /\ c.uniqueMinters >= criteria.minUniqueMinters

----------------------------------------------------------------------------
couldQualify(c) ==
    /\ criteria.requireLive => c.status = "live"
    /\ c.ageSec <= criteria.maxAgeSec
    /\ c.attemptsInWindow >= criteria.minAttemptsInWindow
    /\ c.attemptsPerMinute >= criteria.minMintsPerMinute
    /\ c.uniqueMinters >= criteria.minUniqueMinters
    /\ criteria.freeOnly => c.isFree

Shortlist ==
    /\ phase = "asked"
    /\ collection' \in Sampled
    /\ phase' = IF couldQualify(collection') THEN "listed" ELSE "dropped"
    /\ UNCHANGED <<criteria, contract, unread, info, checks>>

Inspect ==
    /\ phase = "listed"
    /\ contract' \in Contracts
    /\ \E failed \in SUBSET (DOMAIN contract' \cup {"code"}) :
          /\ Cardinality(failed) <= MaxUnread
          /\ unread' = failed
    /\ info' = inspectContract(contract', unread')
    /\ checks' = evaluate(collection, criteria, info')
    /\ phase' = IF Passes(checks') THEN "qualified"
                ELSE IF isClose(scoreOf(checks')) THEN "close" ELSE "forgotten"
    /\ UNCHANGED <<criteria, collection>>

(* On to the next collection. *)
Proceed ==
    /\ phase \notin {"asked", "listed"}
    /\ phase' = "asked"
    /\ collection' = Nobody /\ contract' = Unseen
    /\ unread' = {} /\ info' = NoInfo /\ checks' = {}
    /\ UNCHANGED criteria

Next == Shortlist \/ Inspect \/ Proceed

Spec == Init /\ [][Next]_vars

----------------------------------------------------------------------------
(* What is dropped before its contract is read would not have qualified     *)
(* whatever the contract had answered (couldQualify restates evaluate).     *)
PrefilterSound ==
    phase = "dropped" =>
        \A c \in Contracts : ~Passes(evaluate(collection, criteria, inspectContract(c, {})))

(* What really bars a collection from being bought, and the reads that tell.*)
Truth == inspectContract(contract, {})
HasReads(fns) == \E i \in DOMAIN fns : fns[i] \in unread
Barred ==
    \/ "code" \notin DOMAIN contract
    \/ Truth.isNft = FALSE /\ ~({"ERC721", "ERC1155"} \cap DOMAIN contract # {}
                                  /\ {"ERC721", "ERC1155"} \cap DOMAIN contract \subseteq unread)
                           /\ "decimals" \notin unread
    \/ Truth.supply.soldOut /\ ~HasReads(SUPPLY_FNS) /\ ~HasReads(MAX_SUPPLY_FNS)
    \/ criteria.requireSaleOpen /\ Truth.saleOpen = FALSE /\ ~HasReads(SALE_OPEN_FNS)
    \/ criteria.skipIfOwned /\ Known(Truth.owned) /\ Truth.owned > 0 /\ "balanceOf" \notin unread

(* A collection qualifies only if no read that came through bars it: one    *)
(* failed read unblocks what that read alone would have told, an unreadable *)
(* contract nothing; and no request makes it cost more than the server      *)
(* allows (evaluate, mergeCriteria: "never how much it is allowed to lose").*)
QualifiedIsEarned ==
    phase = "qualified" =>
        /\ info # NoInfo /\ ~Barred
        /\ collection.observedValue <= Server.maxPrice

(* A near miss is one that some request would let through, each dial at its *)
(* loosest or left to the server, which may be looser still; as blocking    *)
(* checks promise ("an unbuyable collection can never sit in the   *)
(* list of things one adjustment away"): unless it costs more than the      *)
(* server allows or takes longer to sell out than any dial reaches.         *)
Loosest ==
    [key \in DOMAIN criteria |->
        IF key \in {"maxAgeSec", "maxSelloutSec", "maxSupplyProgress"}
        THEN Max({Dials[key].max, Server[key]})
        ELSE IF key \in DOMAIN Dials THEN Min({Dials[key].min, Server[key]})
        ELSE IF key = "freeOnly" THEN FALSE ELSE criteria[key]]
NearMissIsReachable ==
    phase = "close" =>
        \A check \in evaluate(collection, Loosest, info) :
            ~check.passed => check.name \in {"price", "selling out fast"}
============================================================================
