------------------------------ MODULE Criteria ------------------------------
(***************************************************************************)
(* src/criteria.ts: the checks a collection of the feed has to pass before  *)
(* it is bought, the score of one that does not pass, and the dials a       *)
(* request may turn.  Scores are parts of Whole.                            *)
(***************************************************************************)
EXTENDS Inspect, FiniteSetsExt

CONSTANTS
    Whole,                \* the score of a check that passed
    Dials                 \* the range [min, max] of each adjustable number

CLOSE_SCORE == 70
Flags == {"requireLive", "requireSaleOpen", "skipIfOwned", "freeOnly"}

Clip(low, value, high) == IF value < low THEN low ELSE IF value > high THEN high ELSE value

----------------------------------------------------------------------------
(* Partial credit; a ceiling is compared with the fraction actual / per.    *)
atLeast(actual, required) ==
    IF required <= 0 THEN Whole ELSE Clip(0, (actual * Whole) \div required, Whole)

atMost(actual, per, required) ==
    IF actual <= required * per \/ actual <= 0 THEN Whole
    ELSE Clip(0, (required * per * Whole) \div actual, Whole)

headroom(progress, ceiling) ==
    IF progress <= ceiling THEN Whole
    ELSE IF ceiling >= 10000 THEN 0
    ELSE Clip(0, ((10000 - progress) * Whole) \div (10000 - ceiling), Whole)

Rule(name, passed, score, weight) ==
    [name |-> name, passed |-> passed, score |-> score, weight |-> weight, blocking |-> FALSE]
Blocker(name, passed, weight) ==
    [name |-> name, passed |-> passed, score |-> IF passed THEN Whole ELSE 0,
     weight |-> weight, blocking |-> TRUE]
If(condition, checks) == IF condition THEN checks ELSE {}

----------------------------------------------------------------------------
(* What the feed alone decides. *)
FeedChecks(c, criteria) ==
    { Rule("mint rate", c.attemptsPerMinute >= criteria.minMintsPerMinute,
           atLeast(c.attemptsPerMinute, criteria.minMintsPerMinute), 2),
      Rule("unique minters", c.uniqueMinters >= criteria.minUniqueMinters,
           atLeast(c.uniqueMinters, criteria.minUniqueMinters), 3),
      Rule("burst size", c.attemptsInWindow >= criteria.minAttemptsInWindow,
           atLeast(c.attemptsInWindow, criteria.minAttemptsInWindow), 1),
      Rule("freshness", c.ageSec <= criteria.maxAgeSec, atMost(c.ageSec, 1, criteria.maxAgeSec), 1) }
    \cup If(criteria.requireLive,
            {Rule("still minting", c.status = "live",
                  CASE c.status = "live" -> Whole [] c.status = "slowing" -> Whole \div 2 [] OTHER -> 0, 2)})

PriceChecks(c, criteria) ==
    LET free == c.isFree /\ c.observedValue = 0 IN
    IF criteria.freeOnly
    THEN {Rule("free mint", free, IF free THEN Whole ELSE 0, 2)}
    ELSE {Rule("price", c.observedValue <= criteria.maxPrice,
               atMost(c.observedValue, 1, criteria.maxPrice), 2)}

(* A contract of which nothing is known is no collection; one that does not *)
(* answer ERC-165 is judged by its shape.                                   *)
IsNft(info) == IF Known(info.isNft) THEN info.isNft ELSE info.looksLikeNft

(* A mutated form: a contract that cannot be read skips the check.          *)
NftIfReadable(info) == If(info # NoInfo, {Blocker("is an NFT", IsNft(info), 4)})

NftChecks(info) == {Blocker("is an NFT", info # NoInfo /\ IsNft(info), 4)}

(* Time to the last token at the current rate, as remaining * 60 / rate.    *)
SupplyChecks(c, criteria, supply) ==
    IF supply.soldOut THEN {Blocker("not sold out", FALSE, 4)}
    ELSE If(Known(supply.progress),
            {Rule("supply left", supply.progress <= criteria.maxSupplyProgress,
                  headroom(supply.progress, criteria.maxSupplyProgress), 2)})
         \cup If(Known(supply.remaining) /\ c.attemptsPerMinute > 0,
            {Rule("selling out fast",
                  supply.remaining * 60 <= criteria.maxSelloutSec * c.attemptsPerMinute,
                  atMost(supply.remaining * 60, c.attemptsPerMinute, criteria.maxSelloutSec), 3)})

FlagChecks(criteria, info) ==
    If(criteria.requireSaleOpen /\ Known(info.saleOpen), {Blocker("sale open", info.saleOpen, 3)})
    \cup If(criteria.skipIfOwned /\ Known(info.owned), {Blocker("not already held", info.owned = 0, 4)})

evaluate(c, criteria, info) ==
    FeedChecks(c, criteria) \cup PriceChecks(c, criteria) \cup NftChecks(info)
    \cup If(info # NoInfo, SupplyChecks(c, criteria, info.supply) \cup FlagChecks(criteria, info))

Passes(checks) == \A check \in checks : check.passed

(* Math.round of the weighted mean; nothing adjustable rescues a blocker.   *)
WeightedMean(checks) ==
    LET total == MapThenSumSet(LAMBDA check : check.weight, checks)
        earned == MapThenSumSet(LAMBDA check : check.score * check.weight, checks)
    IN  (earned * 200 + total * Whole) \div (2 * total * Whole)

(* A mutated form: blocking checks count like any other.                    *)
ScoreWithoutBlocking(checks) == WeightedMean(checks)

scoreOf(checks) ==
    IF \E check \in checks : check.blocking /\ ~check.passed THEN 0 ELSE WeightedMean(checks)

isClose(score) == score >= CLOSE_SCORE

----------------------------------------------------------------------------
(* mergeCriteria: numbers a request asks for are clamped, flags are set,    *)
(* everything else it names, the price above all, is ignored.  (A value     *)
(* that is empty or no number counts as not asked for.)                     *)
mergeCriteria(base, overrides) ==
    [key \in DOMAIN base |->
        IF key \notin DOMAIN overrides THEN base[key]
        ELSE IF key \in DOMAIN Dials THEN Clip(Dials[key].min, overrides[key], Dials[key].max)
        ELSE IF key \in Flags THEN overrides[key] ELSE base[key]]
============================================================================
