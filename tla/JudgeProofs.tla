----------------------------- MODULE JudgeProofs -----------------------------
(***************************************************************************)
(* What holds of a verdict for every criteria a deployment may have, every  *)
(* request, every row of the feed, every contract and every set of reads    *)
(* that fail; then of the life of a row of the board in the cache, for      *)
(* every time to live, feed and setup of the deployment; and of the calls a *)
(* press or a hunt makes from a row, for every feed, contract and wallet.   *)
(***************************************************************************)
EXTENDS Judge, MintNow, TLAPS

VerdictInv ==
    /\ \E overrides \in Asked : criteria = mergeCriteria(Server, overrides)
    /\ collection \in Sampled /\ contract \in Contracts
    /\ phase = "dropped" => ~couldQualify(collection)
    /\ phase \notin {"asked", "dropped"} => couldQualify(collection)
    /\ phase \in {"qualified", "close"} => info = inspectContract(contract, unread)
    /\ phase = "qualified" => Passes(evaluate(collection, criteria, info))
    /\ phase = "close" => isClose(scoreOf(evaluate(collection, criteria, info)))

(* Nothing is judged yet.                                                   *)
LEMMA Start == Init => VerdictInv
<1>1. Nobody \in Sampled /\ Unseen \in Contracts BY JudgeAssumption DEF Nobody, Unseen
<1> QED BY <1>1 DEF Init, VerdictInv

(* A verdict is about the row and the contract at hand until the next row.  *)
LEMMA Step ==
    ASSUME VerdictInv, [Next]_vars
    PROVE  VerdictInv'
<1>0. Nobody \in Sampled /\ Unseen \in Contracts BY JudgeAssumption DEF Nobody, Unseen
<1>1. CASE Shortlist
  <2>1. collection' \in Sampled /\ criteria' = criteria /\ contract' = contract
        /\ phase' = IF couldQualify(collection)' THEN "listed" ELSE "dropped"
    BY <1>1 DEF Shortlist, couldQualify
  <2> QED BY <2>1 DEF VerdictInv
<1>2. CASE Inspect
  <2>1. /\ collection' = collection /\ criteria' = criteria /\ contract' \in Contracts
        /\ info' = inspectContract(contract', unread')
        /\ phase = "listed"
        /\ phase' = IF Passes(evaluate(collection, criteria, info')) THEN "qualified"
                    ELSE IF isClose(scoreOf(evaluate(collection, criteria, info'))) THEN "close"
                    ELSE "forgotten"
    BY <1>2 DEF Inspect
  <2>2. couldQualify(collection)' = couldQualify(collection) BY <2>1 DEF couldQualify
  <2> QED BY <2>1, <2>2 DEF VerdictInv
<1>3. CASE Proceed BY <1>0, <1>3 DEF Proceed, VerdictInv
<1>4. CASE UNCHANGED vars BY <1>4 DEF vars, VerdictInv, couldQualify
<1> QED BY <1>1, <1>2, <1>3, <1>4 DEF Next

----------------------------------------------------------------------------
(* What it means for each check that it passed.                             *)
LEMMA FeedTells ==
    ASSUME NEW c, NEW wanted, \A check \in FeedChecks(c, wanted) : check.passed
    PROVE  /\ c.attemptsPerMinute >= wanted.minMintsPerMinute
           /\ c.uniqueMinters >= wanted.minUniqueMinters
           /\ c.attemptsInWindow >= wanted.minAttemptsInWindow
           /\ c.ageSec <= wanted.maxAgeSec
           /\ wanted.requireLive => c.status = "live"
<1> DEFINE credit == atLeast(c.attemptsPerMinute, wanted.minMintsPerMinute)
           minters == atLeast(c.uniqueMinters, wanted.minUniqueMinters)
           burst == atLeast(c.attemptsInWindow, wanted.minAttemptsInWindow)
           fresh == atMost(c.ageSec, 1, wanted.maxAgeSec)
           live == CASE c.status = "live" -> Whole [] c.status = "slowing" -> Whole \div 2 [] OTHER -> 0
<1>1. c.attemptsPerMinute >= wanted.minMintsPerMinute
  <2> DEFINE check == Rule("mint rate", c.attemptsPerMinute >= wanted.minMintsPerMinute, credit, 2)
  <2>1. check \in FeedChecks(c, wanted) BY Zenon DEF FeedChecks
  <2>2. check.passed <=> (c.attemptsPerMinute >= wanted.minMintsPerMinute) BY Zenon DEF Rule
  <2> HIDE DEF check
  <2> QED BY <2>1, <2>2, Zenon
<1>2. c.uniqueMinters >= wanted.minUniqueMinters
  <2> DEFINE check == Rule("unique minters", c.uniqueMinters >= wanted.minUniqueMinters, minters, 3)
  <2>1. check \in FeedChecks(c, wanted) BY Zenon DEF FeedChecks
  <2>2. check.passed <=> (c.uniqueMinters >= wanted.minUniqueMinters) BY Zenon DEF Rule
  <2> HIDE DEF check
  <2> QED BY <2>1, <2>2, Zenon
<1>3. c.attemptsInWindow >= wanted.minAttemptsInWindow
  <2> DEFINE check == Rule("burst size", c.attemptsInWindow >= wanted.minAttemptsInWindow, burst, 1)
  <2>1. check \in FeedChecks(c, wanted) BY Zenon DEF FeedChecks
  <2>2. check.passed <=> (c.attemptsInWindow >= wanted.minAttemptsInWindow) BY Zenon DEF Rule
  <2> HIDE DEF check
  <2> QED BY <2>1, <2>2, Zenon
<1>4. c.ageSec <= wanted.maxAgeSec
  <2> DEFINE check == Rule("freshness", c.ageSec <= wanted.maxAgeSec, fresh, 1)
  <2>1. check \in FeedChecks(c, wanted) BY Zenon DEF FeedChecks
  <2>2. check.passed <=> (c.ageSec <= wanted.maxAgeSec) BY Zenon DEF Rule
  <2> HIDE DEF check
  <2> QED BY <2>1, <2>2, Zenon
<1>5. ASSUME wanted.requireLive PROVE c.status = "live"
  <2> DEFINE check == Rule("still minting", c.status = "live", live, 2)
  <2>1. check \in FeedChecks(c, wanted) BY <1>5, Zenon DEF FeedChecks, If
  <2>2. check.passed <=> (c.status = "live") BY Zenon DEF Rule
  <2> HIDE DEF check
  <2> QED BY <2>1, <2>2, Zenon
<1> QED BY <1>1, <1>2, <1>3, <1>4, <1>5

(* Free means free; otherwise the price is within the request's limit.      *)
LEMMA PriceTells ==
    ASSUME NEW c, NEW wanted, \A check \in PriceChecks(c, wanted) : check.passed
    PROVE  /\ wanted.freeOnly => c.isFree /\ c.observedValue = 0
           /\ ~wanted.freeOnly => c.observedValue <= wanted.maxPrice
<1> DEFINE free == c.isFree /\ c.observedValue = 0
           due == c.observedValue <= wanted.maxPrice
<1>1. ASSUME wanted.freeOnly PROVE free
  <2> DEFINE check == Rule("free mint", free, IF free THEN Whole ELSE 0, 2)
  <2>1. check \in PriceChecks(c, wanted) BY <1>1, Zenon DEF PriceChecks
  <2>2. check.passed <=> (free) BY Zenon DEF Rule
  <2> HIDE DEF check
  <2> QED BY <2>1, <2>2, Zenon
<1>2. ASSUME ~wanted.freeOnly PROVE due
  <2> DEFINE check == Rule("price", due, atMost(c.observedValue, 1, wanted.maxPrice), 2)
  <2>1. check \in PriceChecks(c, wanted) BY <1>2, Zenon DEF PriceChecks
  <2>2. check.passed <=> (due) BY Zenon DEF Rule
  <2> HIDE DEF check
  <2> QED BY <2>1, <2>2, Zenon
<1> QED BY <1>1, <1>2

(* A collection is one that answered as one.                                *)
LEMMA NftTells ==
    ASSUME NEW known, \A check \in NftChecks(known) : check.passed
    PROVE  known # NoInfo /\ IsNft(known)
<1> DEFINE check == Blocker("is an NFT", known # NoInfo /\ IsNft(known), 4)
<1>1. check \in NftChecks(known) BY Zenon DEF NftChecks
<1>2. check.passed <=> (known # NoInfo /\ IsNft(known)) BY Zenon DEF Blocker
<1> HIDE DEF check
<1> QED BY <1>1, <1>2, Zenon

(* What is sold out is blocked.                                             *)
LEMMA SupplyTells ==
    ASSUME NEW c, NEW wanted, NEW supply, \A check \in SupplyChecks(c, wanted, supply) : check.passed
    PROVE  ~supply.soldOut
<1> SUFFICES ASSUME supply.soldOut PROVE FALSE OBVIOUS
<1> DEFINE check == Blocker("not sold out", FALSE, 4)
<1>1. check \in SupplyChecks(c, wanted, supply) BY Zenon DEF SupplyChecks
<1>2. check.passed <=> FALSE BY Zenon DEF Blocker
<1> HIDE DEF check
<1> QED BY <1>1, <1>2, Zenon

(* A sale known to be closed and a token already held are blocked.          *)
LEMMA FlagsTell ==
    ASSUME NEW wanted, NEW known, \A check \in FlagChecks(wanted, known) : check.passed
    PROVE  /\ wanted.requireSaleOpen /\ Known(known.saleOpen) => known.saleOpen
           /\ wanted.skipIfOwned /\ Known(known.owned) => known.owned = 0
<1>1. ASSUME wanted.requireSaleOpen, Known(known.saleOpen) PROVE known.saleOpen
  <2> DEFINE check == Blocker("sale open", known.saleOpen, 3)
  <2>1. check \in FlagChecks(wanted, known) BY <1>1, Zenon DEF FlagChecks, If
  <2>2. check.passed <=> (known.saleOpen) BY Zenon DEF Blocker
  <2> HIDE DEF check
  <2> QED BY <2>1, <2>2, Zenon
<1>2. ASSUME wanted.skipIfOwned, Known(known.owned) PROVE known.owned = 0
  <2> DEFINE check == Blocker("not already held", known.owned = 0, 4)
  <2>1. check \in FlagChecks(wanted, known) BY <1>2, Zenon DEF FlagChecks, If
  <2>2. check.passed <=> (known.owned = 0) BY Zenon DEF Blocker
  <2> HIDE DEF check
  <2> QED BY <2>1, <2>2, Zenon
<1> QED BY <1>1, <1>2

(* Each condition of the filter is one of the checks.                       *)
LEMMA DroppedFails ==
    ASSUME NEW c, NEW known, Passes(evaluate(c, criteria, known))
    PROVE  couldQualify(c)
<1>1. \A check \in FeedChecks(c, criteria) : check.passed BY DEF Passes, evaluate
<1>2. \A check \in PriceChecks(c, criteria) : check.passed BY DEF Passes, evaluate
<1> QED BY <1>1, <1>2, FeedTells, PriceTells DEF couldQualify

(* The filter before the contract reads drops nothing that could have       *)
(* qualified, whatever contract it is (couldQualify of hunt.ts).            *)
THEOREM PrefilterIsSound == Spec => []PrefilterSound
<1>1. VerdictInv => PrefilterSound BY DroppedFails DEF VerdictInv, PrefilterSound
<1> QED BY <1>1, Start, Step, PTL DEF Spec

----------------------------------------------------------------------------
(* Reads that come through tell the same whatever else fails.               *)
LEMMA SameAnswers ==
    ASSUME NEW c, NEW failed, NEW fns, \A i \in DOMAIN fns : fns[i] \notin failed
    PROVE  probeFirst(c, failed, fns) = probeFirst(c, {}, fns)
<1>1. \A i \in DOMAIN fns : probe(c, failed, fns[i]) = probe(c, {}, fns[i]) BY DEF probe
<1> DEFINE A(u) == {i \in DOMAIN fns : Known(probe(c, u, fns[i]))}
<1>2. A(failed) = A({}) BY <1>1
<1> HIDE DEF A
<1>3. \A u : probeFirst(c, u, fns) =
        IF A(u) = {} THEN NoAnswer
        ELSE c[fns[CHOOSE i \in A(u) : \A j \in A(u) : i <= j]]
  BY DEF probeFirst, A
<1> QED BY <1>2, <1>3

(* Not to be in a set is a value of its own.                                *)
LEMMA NotIn ==
    ASSUME NEW S, NEW e, e \notin S
    PROVE  (e \in S) = FALSE
BY SMT

(* One interface that answers, with no "yes" anywhere, makes it a "no".     *)
LEMMA NoInterface ==
    ASSUME NEW c \in Contracts, NEW failed,
           supportsNftInterface(c, {}) = FALSE,
           \E e \in {"ERC721", "ERC1155"} : e \in DOMAIN c /\ e \notin failed
    PROVE  supportsNftInterface(c, failed) = FALSE
<1>1. probe(c, {}, "ERC721") # TRUE /\ probe(c, {}, "ERC1155") # TRUE
  BY AnswerAssumption DEF supportsNftInterface
<1>2. probe(c, failed, "ERC721") # TRUE /\ probe(c, failed, "ERC1155") # TRUE
  BY <1>1, AnswerAssumption DEF probe
<1>3. probe(c, failed, "ERC721") # NoAnswer \/ probe(c, failed, "ERC1155") # NoAnswer
  BY JudgeAssumption DEF probe
<1> DEFINE answers == {probe(c, failed, "ERC721"), probe(c, failed, "ERC1155")}
<1>4. answers # {NoAnswer} BY <1>3
<1>5. TRUE \notin answers BY <1>2
<1>6. supportsNftInterface(c, failed) = IF answers = {NoAnswer} THEN NoAnswer ELSE TRUE \in answers
  BY Zenon DEF supportsNftInterface
<1> HIDE DEF answers
<1>7. (TRUE \in answers) = FALSE BY <1>5, NotIn, Zenon
<1> QED BY <1>4, <1>6, <1>7, Zenon

(* A contract none of whose interface answers came through is judged by     *)
(* decimals().                                                              *)
LEMMA NotAnNft ==
    ASSUME NEW c \in Contracts, NEW failed, "code" \in DOMAIN c, "code" \notin failed,
           inspectContract(c, {}).isNft = FALSE,
           ~({"ERC721", "ERC1155"} \cap DOMAIN c # {} /\ {"ERC721", "ERC1155"} \cap DOMAIN c \subseteq failed),
           "decimals" \notin failed
    PROVE  inspectContract(c, failed).isNft = FALSE
<1> DEFINE Nft(u) == supportsNftInterface(c, u)
           Fungible(u) == Known(probe(c, u, "decimals"))
<1>1. \A u : "code" \notin u => inspectContract(c, u).isNft =
        IF Known(Nft(u)) THEN Nft(u) ELSE IF Fungible(u) THEN FALSE ELSE NoAnswer
  BY DEF inspectContract
<1>2. Fungible(failed) = Fungible({}) BY DEF probe
<1>3. CASE Known(Nft({}))
  <2>1. Nft({}) = FALSE BY <1>1, <1>3
  <2>2. {"ERC721", "ERC1155"} \cap DOMAIN c # {} BY <1>3 DEF supportsNftInterface, probe, Known
  <2>3. Nft(failed) = FALSE BY <2>1, <2>2, NoInterface
  <2>4. Known(Nft(failed)) BY <2>3, AnswerAssumption DEF Known
  <2> QED BY <1>1, <2>3, <2>4
<1>4. CASE ~Known(Nft({}))
  <2>1. Nft({}) = NoAnswer BY <1>4 DEF Known
  <2>2. probe(c, {}, "ERC721") = NoAnswer /\ probe(c, {}, "ERC1155") = NoAnswer
    <3> DEFINE answers == {probe(c, {}, "ERC721"), probe(c, {}, "ERC1155")}
    <3>1. supportsNftInterface(c, {}) = IF answers = {NoAnswer} THEN NoAnswer ELSE TRUE \in answers
      BY Zenon DEF supportsNftInterface
    <3>2. (TRUE \in answers) # NoAnswer
      <4>1. CASE TRUE \in answers BY <4>1, AnswerAssumption, Zenon
      <4>2. CASE TRUE \notin answers
        <5> HIDE DEF answers
        <5>1. (TRUE \in answers) = FALSE BY <4>2, NotIn, Zenon
        <5> QED BY <5>1, AnswerAssumption, Zenon
      <4> QED BY <4>1, <4>2
    <3>3. answers = {NoAnswer} BY <2>1, <3>1, <3>2, Zenon
    <3> QED BY <3>3
  <2>3. probe(c, failed, "ERC721") = NoAnswer /\ probe(c, failed, "ERC1155") = NoAnswer
    BY <2>2 DEF probe
  <2>4. Nft(failed) = NoAnswer BY <2>3 DEF supportsNftInterface
  <2>5. Fungible({}) BY <1>1, <1>4, AnswerAssumption
  <2> QED BY <1>1, <1>2, <2>4, <2>5 DEF Known
<1> QED BY <1>3, <1>4

(* The request's criteria keep the server's price.                          *)
LEMMA PriceIsTheServers ==
    ASSUME NEW overrides
    PROVE  mergeCriteria(Server, overrides).maxPrice = Server.maxPrice
BY JudgeAssumption, DialAssumption DEF mergeCriteria, Flags, DialNames

(* The checks of a verdict that passed, against the reads that came through. *)
LEMMA NothingBars ==
    ASSUME VerdictInv, phase = "qualified"
    PROVE  info # NoInfo /\ ~Barred
<1>0. info = inspectContract(contract, unread) /\ contract \in Contracts
  BY DEF VerdictInv
<1>1. \A check \in evaluate(collection, criteria, info) : check.passed
  BY DEF VerdictInv, Passes
<1>2. info # NoInfo /\ IsNft(info)
  BY <1>1, NftTells DEF evaluate
<1>3. "code" \notin unread BY <1>0, <1>2 DEF inspectContract
<1>4. "code" \in DOMAIN contract
  BY <1>0, <1>2, <1>3 DEF inspectContract, IsNft, Known
<1>5. \A check \in SupplyChecks(collection, criteria, info.supply) \cup FlagChecks(criteria, info) :
        check.passed
  BY <1>1, <1>2 DEF evaluate, If
<1> DEFINE Ask(u, fns) == probeFirst(contract, u, fns)
<1>6. \A u : "code" \notin u =>
        /\ inspectContract(contract, u).supply = Supply(Ask(u, SUPPLY_FNS), Ask(u, MAX_SUPPLY_FNS))
        /\ inspectContract(contract, u).saleOpen = Ask(u, SALE_OPEN_FNS)
        /\ inspectContract(contract, u).owned = probe(contract, u, "balanceOf")
  BY <1>4 DEF inspectContract, balanceOf
<1> HIDE DEF Ask
<1>7. ASSUME NEW fns, ~HasReads(fns) PROVE Ask(unread, fns) = Ask({}, fns)
  BY <1>7, SameAnswers DEF Ask, HasReads
<1>8. ~(Truth.isNft = FALSE /\ ~({"ERC721", "ERC1155"} \cap DOMAIN contract # {}
            /\ {"ERC721", "ERC1155"} \cap DOMAIN contract \subseteq unread)
        /\ "decimals" \notin unread)
  <2> SUFFICES ASSUME Truth.isNft = FALSE, "decimals" \notin unread,
                      ~({"ERC721", "ERC1155"} \cap DOMAIN contract # {}
                        /\ {"ERC721", "ERC1155"} \cap DOMAIN contract \subseteq unread)
               PROVE  FALSE
    OBVIOUS
  <2>1. inspectContract(contract, unread).isNft = FALSE BY <1>0, <1>3, <1>4, NotAnNft DEF Truth
  <2> QED BY <2>1, <1>0, <1>2, AnswerAssumption DEF IsNft, Known
<1>9. ~(Truth.supply.soldOut /\ ~HasReads(SUPPLY_FNS) /\ ~HasReads(MAX_SUPPLY_FNS))
  <2> SUFFICES ASSUME Truth.supply.soldOut, ~HasReads(SUPPLY_FNS), ~HasReads(MAX_SUPPLY_FNS)
               PROVE  FALSE
    OBVIOUS
  <2>1. info.supply = Truth.supply BY <1>0, <1>3, <1>6, <1>7 DEF Truth
  <2> QED BY <2>1, <1>5, SupplyTells
<1>10. ~(criteria.requireSaleOpen /\ Truth.saleOpen = FALSE /\ ~HasReads(SALE_OPEN_FNS))
  <2> SUFFICES ASSUME criteria.requireSaleOpen, Truth.saleOpen = FALSE, ~HasReads(SALE_OPEN_FNS)
               PROVE  FALSE
    OBVIOUS
  <2>1. info.saleOpen = FALSE BY <1>0, <1>3, <1>6, <1>7 DEF Truth
  <2> QED BY <2>1, <1>5, FlagsTell, AnswerAssumption DEF Known
<1>11. ~(criteria.skipIfOwned /\ Known(Truth.owned) /\ Truth.owned > 0 /\ "balanceOf" \notin unread)
  <2> SUFFICES ASSUME criteria.skipIfOwned, Known(Truth.owned), Truth.owned > 0, "balanceOf" \notin unread
               PROVE  FALSE
    OBVIOUS
  <2>1. info.owned = Truth.owned BY <1>0, <1>3, <1>6 DEF Truth, probe
  <2>2. Truth.owned = 0 BY <2>1, <1>5, FlagsTell
  <2> QED BY <2>2
<1> QED BY <1>2, <1>4, <1>8, <1>9, <1>10, <1>11 DEF Barred

(* The price check of such a verdict is against the server's own price.     *)
LEMMA WithinBudget ==
    ASSUME VerdictInv, phase = "qualified"
    PROVE  collection.observedValue <= Server.maxPrice
<1>1. criteria.maxPrice = Server.maxPrice BY PriceIsTheServers DEF VerdictInv
<1>2. \A check \in PriceChecks(collection, criteria) : check.passed
  BY DEF VerdictInv, Passes, evaluate
<1>3. CASE criteria.freeOnly
  <2>1. collection.observedValue = 0 BY <1>2, <1>3, PriceTells
  <2> QED BY <2>1, JudgeAssumption
<1>4. CASE ~criteria.freeOnly
  <2>1. collection.observedValue <= criteria.maxPrice BY <1>2, <1>4, PriceTells
  <2> QED BY <1>1, <2>1
<1> QED BY <1>3, <1>4

(* Whatever a request asks for and whichever reads fail: what qualifies is  *)
(* barred by no read that came through, and costs no more than the server   *)
(* allows (evaluate, mergeCriteria, inspectContract).                       *)
THEOREM QualifyingIsEarned == Spec => []QualifiedIsEarned
<1>1. VerdictInv => QualifiedIsEarned BY NothingBars, WithinBudget DEF QualifiedIsEarned
<1> QED BY <1>1, Start, Step, PTL DEF Spec
----------------------------------------------------------------------------
(* The greater and the lesser of two numbers.                               *)
LEMMA OfTwo ==
    ASSUME NEW a \in Int, NEW b \in Int
    PROVE  /\ Max({a, b}) \in Int /\ Max({a, b}) >= a /\ Max({a, b}) >= b
           /\ Min({a, b}) \in Int /\ Min({a, b}) <= a /\ Min({a, b}) <= b
<1>1. PICK high, low : high = Max({a, b}) /\ low = Min({a, b})
  OBVIOUS
<1>2. /\ \E x \in {a, b} : \A y \in {a, b} : x >= y
      /\ \E x \in {a, b} : \A y \in {a, b} : x <= y
  OBVIOUS
<1>3. high \in {a, b} /\ \A y \in {a, b} : high >= y
  BY <1>1, <1>2 DEF Max
<1>4. low \in {a, b} /\ \A y \in {a, b} : low <= y
  BY <1>1, <1>2 DEF Min
<1> QED BY <1>1, <1>3, <1>4

(* A dial that was asked for is within its range, any other is the server's. *)
LEMMA DialsAreKept ==
    ASSUME VerdictInv, NEW key \in DialNames
    PROVE  /\ Dials[key].min \in Int /\ Dials[key].max \in Int /\ Server[key] \in Int
           /\ criteria[key] \in Int
           /\ \/ criteria[key] = Server[key]
              \/ Dials[key].min <= criteria[key] /\ criteria[key] <= Dials[key].max
<1>1. PICK overrides \in Asked : criteria = mergeCriteria(Server, overrides) BY DEF VerdictInv
<1>2. /\ Dials[key].min \in Int /\ Dials[key].max \in Int /\ key \in DOMAIN Dials
      /\ Dials[key].min <= Dials[key].max
      /\ Server[key] \in Int
      /\ key \in DOMAIN Server
      /\ key \in DOMAIN overrides => overrides[key] \in Int
  BY JudgeAssumption, DialAssumption
<1>3. criteria[key] = IF key \notin DOMAIN overrides THEN Server[key]
                      ELSE Clip(Dials[key].min, overrides[key], Dials[key].max)
  BY <1>1, <1>2, Zenon DEF mergeCriteria
<1> QED BY <1>2, <1>3 DEF Clip

(* The loosest a request can make each dial, spelled out.                   *)
LEMMA LoosestIs ==
    ASSUME VerdictInv
    PROVE  /\ \A key \in {"minMintsPerMinute", "minUniqueMinters", "minAttemptsInWindow"} :
                 Loosest[key] = Min({Dials[key].min, Server[key]})
           /\ \A key \in {"maxAgeSec", "maxSelloutSec", "maxSupplyProgress"} :
                 Loosest[key] = Max({Dials[key].max, Server[key]})
           /\ Loosest.freeOnly = FALSE
           /\ \A key \in {"requireLive", "requireSaleOpen", "skipIfOwned"} :
                 Loosest[key] = criteria[key]
<1>1. DOMAIN criteria = DialNames \cup Flags \cup {"maxPrice"}
  <2>1. PICK overrides \in Asked : criteria = mergeCriteria(Server, overrides) BY DEF VerdictInv
  <2>2. DOMAIN criteria = DOMAIN Server BY <2>1 DEF mergeCriteria
  <2> QED BY <2>2, JudgeAssumption
<1>2. DOMAIN Dials = DialNames BY DialAssumption
<1>3. Loosest = [key \in DialNames \cup Flags \cup {"maxPrice"} |->
        IF key \in {"maxAgeSec", "maxSelloutSec", "maxSupplyProgress"}
        THEN Max({Dials[key].max, Server[key]})
        ELSE IF key \in DialNames THEN Min({Dials[key].min, Server[key]})
        ELSE IF key = "freeOnly" THEN FALSE ELSE criteria[key]]
  BY <1>1, <1>2, Zenon DEF Loosest
<1> HIDE DEF Loosest
<1> QED BY <1>3 DEF DialNames, Flags

(* Nothing a request asks of a number of the feed is looser than that.      *)
LEMMA LooserThanAsked ==
    ASSUME VerdictInv
    PROVE  /\ \A key \in {"minMintsPerMinute", "minUniqueMinters", "minAttemptsInWindow"} :
                 criteria[key] \in Int /\ Loosest[key] \in Int /\ Loosest[key] <= criteria[key]
           /\ \A key \in {"maxAgeSec", "maxSelloutSec", "maxSupplyProgress"} :
                 criteria[key] \in Int /\ Loosest[key] \in Int /\ criteria[key] <= Loosest[key]
<1>1. ASSUME NEW key \in {"minMintsPerMinute", "minUniqueMinters", "minAttemptsInWindow"}
      PROVE  criteria[key] \in Int /\ Loosest[key] \in Int /\ Loosest[key] <= criteria[key]
  <2>1. key \in DialNames BY DEF DialNames
  <2>2. PICK least, own, low : least = Dials[key].min /\ own = Server[key] /\ low = Min({least, own})
    OBVIOUS
  <2>3. /\ least \in Int /\ own \in Int /\ criteria[key] \in Int
        /\ criteria[key] = own \/ least <= criteria[key]
    BY <2>1, <2>2, DialsAreKept
  <2>4. low \in Int /\ low <= least /\ low <= own BY <2>2, <2>3, OfTwo
  <2>5. Loosest[key] = low BY <1>1, <2>2, LoosestIs
  <2> QED BY <2>3, <2>4, <2>5
<1>2. ASSUME NEW key \in {"maxAgeSec", "maxSelloutSec", "maxSupplyProgress"}
      PROVE  criteria[key] \in Int /\ Loosest[key] \in Int /\ criteria[key] <= Loosest[key]
  <2>1. key \in DialNames BY DEF DialNames
  <2>2. PICK most, own, high : most = Dials[key].max /\ own = Server[key] /\ high = Max({most, own})
    OBVIOUS
  <2>3. /\ most \in Int /\ own \in Int /\ criteria[key] \in Int
        /\ criteria[key] = own \/ criteria[key] <= most
    BY <2>1, <2>2, DialsAreKept
  <2>4. high \in Int /\ high >= most /\ high >= own BY <2>2, <2>3, OfTwo
  <2>5. Loosest[key] = high BY <1>2, <2>2, LoosestIs
  <2> QED BY <2>3, <2>4, <2>5
<1> QED BY <1>1, <1>2

(* A row within the feed's limits passes every check of the feed.           *)
LEMMA FeedPasses ==
    ASSUME NEW c, NEW wanted,
           c.attemptsPerMinute >= wanted.minMintsPerMinute, c.uniqueMinters >= wanted.minUniqueMinters,
           c.attemptsInWindow >= wanted.minAttemptsInWindow, c.ageSec <= wanted.maxAgeSec,
           wanted.requireLive => c.status = "live",
           NEW check \in FeedChecks(c, wanted)
    PROVE  check.passed
<1> DEFINE credit == atLeast(c.attemptsPerMinute, wanted.minMintsPerMinute)
           minters == atLeast(c.uniqueMinters, wanted.minUniqueMinters)
           burst == atLeast(c.attemptsInWindow, wanted.minAttemptsInWindow)
           fresh == atMost(c.ageSec, 1, wanted.maxAgeSec)
           live == CASE c.status = "live" -> Whole [] c.status = "slowing" -> Whole \div 2 [] OTHER -> 0
           a == Rule("mint rate", c.attemptsPerMinute >= wanted.minMintsPerMinute, credit, 2)
           b == Rule("unique minters", c.uniqueMinters >= wanted.minUniqueMinters, minters, 3)
           d == Rule("burst size", c.attemptsInWindow >= wanted.minAttemptsInWindow, burst, 1)
           e == Rule("freshness", c.ageSec <= wanted.maxAgeSec, fresh, 1)
           f == Rule("still minting", c.status = "live", live, 2)
<1>1. a.passed <=> c.attemptsPerMinute >= wanted.minMintsPerMinute BY Zenon DEF Rule
<1>2. b.passed <=> c.uniqueMinters >= wanted.minUniqueMinters BY Zenon DEF Rule
<1>3. d.passed <=> c.attemptsInWindow >= wanted.minAttemptsInWindow BY Zenon DEF Rule
<1>4. e.passed <=> c.ageSec <= wanted.maxAgeSec BY Zenon DEF Rule
<1>5. f.passed <=> c.status = "live" BY Zenon DEF Rule
<1>6. check \in {a, b, d, e} \/ (wanted.requireLive /\ check = f) BY Zenon DEF FeedChecks, If
<1> HIDE DEF a, b, d, e, f
<1> QED BY <1>1, <1>2, <1>3, <1>4, <1>5, <1>6, Zenon

(* What is left of a supply that is not sold out never exceeds the whole.   *)
LEMMA Portion ==
    ASSUME NEW total \in Nat, NEW max \in Nat, total < max
    PROVE  (total * 10000) \div max \in Int /\ (total * 10000) \div max <= 10000
OBVIOUS

(* What a contract says of its supply is a number.                          *)
LEMMA SupplyIsCounted ==
    ASSUME NEW c \in Contracts, NEW failed, NEW a, NEW b,
           {a, b} \subseteq {"totalSupply", "totalMinted", "maxSupply", "MAX_SUPPLY"},
           Known(probeFirst(c, failed, <<a, b>>))
    PROVE  probeFirst(c, failed, <<a, b>>) \in Nat
<1> DEFINE fns == <<a, b>>
           answered == {i \in DOMAIN fns : Known(probe(c, failed, fns[i]))}
           first == CHOOSE i \in answered : \A j \in answered : i <= j
<1>1. DOMAIN fns = 1..2 /\ fns[1] = a /\ fns[2] = b OBVIOUS
<1>2. probeFirst(c, failed, fns) = IF answered = {} THEN NoAnswer ELSE c[fns[first]]
  BY Zenon DEF probeFirst
<1>3. answered # {} BY <1>2 DEF Known
<1>4. \E i \in answered : \A j \in answered : i <= j
  <2>1. answered \subseteq {1, 2} BY <1>1
  <2> HIDE DEF answered
  <2>2. CASE 1 \in answered
    <3>1. \A j \in answered : 1 <= j BY <2>1
    <3> QED BY <2>2, <3>1, Zenon
  <2>3. CASE 1 \notin answered
    <3>1. answered = {2} BY <1>3, <2>1, <2>3
    <3>2. 2 <= 2 OBVIOUS
    <3> QED BY <3>1, <3>2, Zenon
  <2> QED BY <2>2, <2>3
<1>5. first \in answered BY <1>4, Zenon
<1>6. first \in DOMAIN fns /\ Known(probe(c, failed, fns[first])) BY <1>5
<1> HIDE DEF fns, first, answered
<1>7. fns[first] \in {a, b} BY <1>1, <1>6
<1>8. fns[first] \in DOMAIN c BY <1>6 DEF probe, Known
<1>9. c[fns[first]] \in Nat BY <1>7, <1>8, JudgeAssumption
<1> QED BY <1>2, <1>3, <1>9 DEF fns

(* The largest dial reaches the progress of every supply that is not sold   *)
(* out.                                                                     *)
LEMMA ProgressIsPartial ==
    ASSUME NEW c \in Contracts, NEW failed, NEW known,
           known = inspectContract(c, failed), known # NoInfo,
           ~known.supply.soldOut, Known(known.supply.progress)
    PROVE  known.supply.progress \in Int /\ known.supply.progress <= 10000
<1> DEFINE total == probeFirst(c, failed, SUPPLY_FNS)
           max == probeFirst(c, failed, MAX_SUPPLY_FNS)
<1>1. "code" \notin failed BY DEF inspectContract
<1>2. CASE "code" \notin DOMAIN c
  <2>1. known.supply = Supply(NoAnswer, NoAnswer) BY <1>1, <1>2 DEF inspectContract
  <2>2. Supply(NoAnswer, NoAnswer).progress = NoAnswer BY DEF Supply, Known
  <2> QED BY <2>1, <2>2 DEF Known
<1>3. CASE "code" \in DOMAIN c
  <2>1. known.supply = Supply(total, max) BY <1>1, <1>3 DEF inspectContract
  <2>2. /\ Known(total) => total \in Nat
        /\ Known(max) => max \in Nat
    BY SupplyIsCounted DEF SUPPLY_FNS, MAX_SUPPLY_FNS
  <2> HIDE DEF total, max
  <2>3. Known(total) /\ Known(max) /\ max > 0 /\ Supply(total, max).progress = (total * 10000) \div max
    BY <2>1 DEF Supply, Known
  <2>4. total < max
    <3>0. Known(total) /\ Known(max) /\ max > 0 BY <2>3
    <3> DEFINE answer == [progress |-> (total * 10000) \div max,
                         remaining |-> IF max > total THEN max - total ELSE 0,
                         soldOut |-> total >= max]
    <3>1. Supply(total, max) = answer
      BY <3>0 DEF Supply
    <3>2. answer.soldOut <=> total >= max BY Zenon
    <3> HIDE DEF answer
    <3>3. ~answer.soldOut BY <2>1, <3>1
    <3> QED BY <2>2, <2>3, <3>2, <3>3
  <2> QED BY <2>1, <2>2, <2>3, <2>4, Portion
<1> QED BY <1>2, <1>3

(* A score that is close leaves no blocking check failed.                   *)
LEMMA CloseIsUnblocked ==
    ASSUME NEW verdict, isClose(scoreOf(verdict)), NEW check \in verdict, check.blocking
    PROVE  check.passed
<1> SUFFICES ASSUME ~check.passed PROVE FALSE OBVIOUS
<1>1. scoreOf(verdict) = 0 BY Zenon DEF scoreOf
<1> QED BY <1>1 DEF isClose, CLOSE_SCORE

(* A row the filter lets through is within the loosest limits of the feed.  *)
LEMMA LoosestRows ==
    ASSUME VerdictInv, couldQualify(collection), collection \in Sampled
    PROVE  /\ collection.attemptsPerMinute >= Loosest.minMintsPerMinute
           /\ collection.uniqueMinters >= Loosest.minUniqueMinters
           /\ collection.attemptsInWindow >= Loosest.minAttemptsInWindow
           /\ collection.ageSec <= Loosest.maxAgeSec
<1>1. /\ criteria.minMintsPerMinute \in Int /\ Loosest.minMintsPerMinute \in Int
      /\ Loosest.minMintsPerMinute <= criteria.minMintsPerMinute
  BY LooserThanAsked
<1>2. /\ criteria.minUniqueMinters \in Int /\ Loosest.minUniqueMinters \in Int
      /\ Loosest.minUniqueMinters <= criteria.minUniqueMinters
  BY LooserThanAsked
<1>3. /\ criteria.minAttemptsInWindow \in Int /\ Loosest.minAttemptsInWindow \in Int
      /\ Loosest.minAttemptsInWindow <= criteria.minAttemptsInWindow
  BY LooserThanAsked
<1>4. criteria.maxAgeSec \in Int /\ Loosest.maxAgeSec \in Int /\ criteria.maxAgeSec <= Loosest.maxAgeSec
  BY LooserThanAsked
<1>5. /\ collection.attemptsPerMinute >= criteria.minMintsPerMinute
      /\ collection.uniqueMinters >= criteria.minUniqueMinters
      /\ collection.attemptsInWindow >= criteria.minAttemptsInWindow
      /\ collection.ageSec <= criteria.maxAgeSec
  BY Zenon DEF couldQualify
<1>6. /\ collection.attemptsPerMinute \in Int /\ collection.uniqueMinters \in Int
      /\ collection.attemptsInWindow \in Int /\ collection.ageSec \in Int
  BY RowAssumption
<1> QED BY <1>1, <1>2, <1>3, <1>4, <1>5, <1>6

(* The largest dial covers every part of a supply.                          *)
LEMMA LoosestCovers ==
    ASSUME VerdictInv, NEW part \in Int, part <= 10000
    PROVE  part <= Loosest.maxSupplyProgress
<1>1. "maxSupplyProgress" \in DialNames BY DEF DialNames
<1>2. PICK most : most = Dials.maxSupplyProgress.max OBVIOUS
<1>3. PICK own : own = Server.maxSupplyProgress OBVIOUS
<1>4. most \in Int /\ own \in Int /\ most >= 10000
  BY <1>1, <1>2, <1>3, DialsAreKept, DialAssumption
<1>5. Max({most, own}) \in Int /\ Max({most, own}) >= most BY <1>4, OfTwo
<1>6. Loosest.maxSupplyProgress = Max({most, own}) BY <1>2, <1>3, LoosestIs
<1> QED BY <1>4, <1>5, <1>6

(* A supply that is partly taken is within the loosest limit.               *)
LEMMA ProgressFits ==
    ASSUME VerdictInv, phase = "close", info # NoInfo,
           ~info.supply.soldOut, Known(info.supply.progress)
    PROVE  info.supply.progress <= Loosest.maxSupplyProgress
<1>1. info = inspectContract(contract, unread) /\ contract \in Contracts BY DEF VerdictInv
<1>2. info.supply.progress \in Int /\ info.supply.progress <= 10000
  BY <1>1, ProgressIsPartial
<1> QED BY <1>2, LoosestCovers

(* Check by check: what a close verdict does not fail at the loosest dials.  *)
LEMMA NearMissPasses ==
    ASSUME VerdictInv, phase = "close", NEW check \in evaluate(collection, Loosest, info),
           check.name \notin {"price", "selling out fast"}
    PROVE  check.passed
<1> DEFINE verdict == evaluate(collection, criteria, info)
<1>0. /\ couldQualify(collection) /\ isClose(scoreOf(verdict))
      /\ info = inspectContract(contract, unread) /\ contract \in Contracts /\ collection \in Sampled
  BY DEF VerdictInv
<1>1. \A c \in verdict : c.blocking => c.passed BY <1>0, CloseIsUnblocked
<1>2. NftChecks(info) \subseteq verdict
      /\ (info # NoInfo => FlagChecks(criteria, info) \cup SupplyChecks(collection, criteria, info.supply)
                              \subseteq verdict)
  BY Zenon DEF evaluate, If
<1>3. \/ check \in FeedChecks(collection, Loosest)
      \/ check \in PriceChecks(collection, Loosest)
      \/ check \in NftChecks(info)
      \/ info # NoInfo /\ check \in SupplyChecks(collection, Loosest, info.supply)
      \/ info # NoInfo /\ check \in FlagChecks(Loosest, info)
  BY Zenon DEF evaluate, If
<1> HIDE DEF verdict
<1>4. CASE check \in FeedChecks(collection, Loosest)
  <2>2. /\ collection.attemptsPerMinute >= Loosest.minMintsPerMinute
        /\ collection.uniqueMinters >= Loosest.minUniqueMinters
        /\ collection.attemptsInWindow >= Loosest.minAttemptsInWindow
        /\ collection.ageSec <= Loosest.maxAgeSec
    BY <1>0, LoosestRows, Zenon
  <2>3. Loosest.requireLive => collection.status = "live"
    BY <1>0, LoosestIs, Zenon DEF couldQualify
  <2> QED BY <1>4, <2>2, <2>3, FeedPasses
<1>5. CASE check \in PriceChecks(collection, Loosest)
  <2> DEFINE due == atMost(collection.observedValue, 1, Loosest.maxPrice)
             price == Rule("price", collection.observedValue <= Loosest.maxPrice, due, 2)
  <2>1. ~Loosest.freeOnly BY LoosestIs, Zenon
  <2>2. check = price BY <1>5, <2>1, Zenon DEF PriceChecks
  <2>3. price.name = "price" BY Zenon DEF Rule
  <2> HIDE DEF price
  <2> QED BY <2>2, <2>3
<1>6. CASE check \in NftChecks(info)
  <2> DEFINE nft == Blocker("is an NFT", info # NoInfo /\ IsNft(info), 4)
  <2>1. check = nft BY <1>6, Zenon DEF NftChecks
  <2>2. nft.blocking BY Zenon DEF Blocker
  <2> HIDE DEF nft
  <2> QED BY <2>2, <1>1, <1>2, <1>6, <2>1
<1>7. CASE info # NoInfo /\ check \in FlagChecks(Loosest, info)
  <2>1. FlagChecks(Loosest, info) = FlagChecks(criteria, info)
    BY LoosestIs, Zenon DEF FlagChecks
  <2> DEFINE sale == Blocker("sale open", info.saleOpen, 3)
             held == Blocker("not already held", info.owned = 0, 4)
  <2>2. check = sale \/ check = held BY <1>7, Zenon DEF FlagChecks, If
  <2>3. sale.blocking /\ held.blocking BY Zenon DEF Blocker
  <2> HIDE DEF sale, held
  <2> QED BY <1>1, <1>2, <1>7, <2>1, <2>2, <2>3
<1>8. CASE info # NoInfo /\ check \in SupplyChecks(collection, Loosest, info.supply)
  <2>1. ~info.supply.soldOut
    <3> SUFFICES ASSUME info.supply.soldOut PROVE FALSE OBVIOUS
    <3> DEFINE gone == Blocker("not sold out", FALSE, 4)
    <3>1. gone \in SupplyChecks(collection, criteria, info.supply) BY Zenon DEF SupplyChecks
    <3>2. gone.blocking /\ ~gone.passed BY Zenon DEF Blocker
    <3> HIDE DEF gone
    <3> QED BY <1>1, <1>2, <1>8, <3>1, <3>2
  <2> DEFINE room == headroom(info.supply.progress, Loosest.maxSupplyProgress)
             spare == Rule("supply left", info.supply.progress <= Loosest.maxSupplyProgress, room, 2)
             speed == atMost(info.supply.remaining * 60, collection.attemptsPerMinute, Loosest.maxSelloutSec)
             fast == Rule("selling out fast",
                          info.supply.remaining * 60 <= Loosest.maxSelloutSec * collection.attemptsPerMinute,
                          speed, 3)
  <2>2. Known(info.supply.progress) /\ check = spare
    <3>1. (Known(info.supply.progress) /\ check = spare) \/ check = fast
      BY <1>8, <2>1, Zenon DEF SupplyChecks, If
    <3>2. fast.name = "selling out fast" BY Zenon DEF Rule
    <3> HIDE DEF fast, spare
    <3> QED BY <3>1, <3>2
  <2>4. spare.passed <=> info.supply.progress <= Loosest.maxSupplyProgress BY Zenon DEF Rule
  <2> HIDE DEF spare
  <2>6. info.supply.progress <= Loosest.maxSupplyProgress BY <1>8, <2>1, <2>2, ProgressFits, Zenon
  <2> QED BY <2>2, <2>4, <2>6
<1> QED BY <1>3, <1>4, <1>5, <1>6, <1>7, <1>8

(* Whatever a request asks for and whichever reads fail: a near miss fails  *)
(* nothing at the loosest dials but the price and the time to sell out      *)
(* (evaluate: "an unbuyable collection can never sit in the list of things  *)
(* one adjustment away").                                                   *)
THEOREM NearMissesAreReachable == Spec => []NearMissIsReachable
<1>1. VerdictInv => NearMissIsReachable BY NearMissPasses DEF NearMissIsReachable
<1> QED BY <1>1, Start, Step, PTL DEF Spec

----------------------------------------------------------------------------
(* The ticks the cache has left and those since it was last filled are never *)
(* more than its lifetime together.                                         *)
LifeInv == left = Never \/ (left \in 1..TTL /\ quiet \in 0..(TTL - left))

(* No cache, no clock.                                                      *)
LEMMA BoardStart == MintNowInit => LifeInv
BY DEF MintNowInit, BoardInit, LifeInv

(* Filling the cache starts both clocks again, or only the second.          *)
LEMMA BoardKeepsLife ==
    ASSUME LifeInv, runLiveBoard
    PROVE  LifeInv'
<1>1. PICK filled \in BOOLEAN, timed \in BOOLEAN :
        /\ left' = IF filled /\ timed /\ driver = "redis" THEN Lifetime ELSE left
        /\ quiet' = IF filled THEN 0 ELSE quiet
  <2>1. \A landed : (landed # {}) \in BOOLEAN OBVIOUS
  <2> QED BY <2>1, Zenon DEF runLiveBoard
<1> QED BY <1>1, LifeAssumption DEF LifeInv, Lifetime

(* A tick moves both clocks, until the first runs out.                      *)
LEMMA TickKeepsLife ==
    ASSUME LifeInv, Tick
    PROVE  LifeInv'
<1>1. /\ quiet' = IF quiet \in 0..(TTL - 1) THEN quiet + 1 ELSE quiet
      /\ left' = IF left = 1 \/ left = Never THEN Never ELSE left - 1
  BY LifeAssumption DEF Tick
<1>2. CASE left = 1 \/ left = Never BY <1>1, <1>2 DEF LifeInv
<1>3. CASE ~(left = 1 \/ left = Never)
  <2>1. left \in 2..TTL /\ quiet \in 0..(TTL - left) BY <1>3, LifeAssumption DEF LifeInv
  <2>2. left' = left - 1 /\ quiet' = quiet + 1 BY <1>1, <1>3, <2>1, LifeAssumption
  <2> QED BY <2>1, <2>2, LifeAssumption DEF LifeInv
<1> QED BY <1>2, <1>3

(* Nothing else touches the two clocks.                                     *)
LEMMA BoardStep ==
    ASSUME LifeInv, [MintNowNext]_mintNowVars
    PROVE  LifeInv'
<1>1. CASE UNCHANGED <<left, quiet>> BY <1>1 DEF LifeInv
<1>2. ASSUME NEW tx \in Feed, FeedTx(tx) PROVE LifeInv' BY <1>1, <1>2 DEF FeedTx, cacheVars
<1>3. CASE Listen BY <1>1, <1>3 DEF Listen, cacheVars
<1>4. CASE runLiveBoard BY <1>4, BoardKeepsLife
<1>5. CASE AnswerOnly BY <1>1, <1>5 DEF AnswerOnly, cacheVars
<1>6. CASE Tick BY <1>6, TickKeepsLife
<1>7. ASSUME NEW c \in Targets, Press(c) PROVE LifeInv' BY <1>1, <1>7 DEF Press, boardVars, cacheVars
<1>8. ASSUME NEW c \in Targets, Qualify(c) PROVE LifeInv'
  BY <1>1, <1>8 DEF Qualify, AnswerOnly, cacheVars
<1>9. CASE mintCandidate BY <1>1, <1>9 DEF mintCandidate, boardVars, cacheVars
<1>10. CASE Report BY <1>1, <1>10 DEF Report, boardVars, cacheVars
<1>11. CASE UNCHANGED mintNowVars BY <1>1, <1>11 DEF mintNowVars, boardVars, cacheVars
<1> QED BY <1>2, <1>3, <1>4, <1>5, <1>6, <1>7, <1>8, <1>9, <1>10, <1>11 DEF MintNowNext, BoardNext

(* No press finds a row that redis was told to keep for TTL ticks after TTL *)
(* ticks without a board (liveCache.ts: TTL_SEC).                           *)
THEOREM QuietRowsExpire == MintNowSpec => QuietBoardExpires
<1>1. ASSUME LifeInv, left # Never PROVE quiet < TTL
  BY <1>1, LifeAssumption DEF LifeInv
<1> DEFINE Stays == \A c \in Targets :
                       Press(c) /\ driver = "redis" /\ left # Never => quiet < TTL
<1>2. LifeInv => Stays BY <1>1
<1>3. [][Stays]_plan <=> QuietBoardExpires BY PTL DEF QuietBoardExpires, Stays
<1> HIDE DEF Stays
<1> QED BY <1>2, <1>3, BoardStart, BoardStep, PTL DEF MintNowSpec

----------------------------------------------------------------------------
(* From a transaction of the feed to the calls that are sent.  A sample of a *)
(* collection is a transaction that minted it; a plan sends one to the       *)
(* collection or to a drop contract of the feed, for a price it may cost.    *)
SampleOf(c, tx) == tx \in Feed /\ mintTarget(tx) = c
Drop(a) == \E tx \in Feed : tx.fn \in ProxyFns /\ tx.to = a

PlanOf(p) ==
    /\ p.collection \in Targets /\ SampleOf(p.collection, p.sample)
    /\ p.sendTo = p.collection \/ Drop(p.sendTo)
    /\ p.value \in Nat /\ p.value <= MaxValue

(* The words of a call, by the way it was built.                            *)
Built(tx, way, w, words) ==
    /\ DOMAIN words = DOMAIN tx.words /\ Len(words) = Len(tx.words)
    /\ \/ findQuantityWord(tx) # {}
       \/ way.rank = 2 /\ \A i \in DOMAIN tx.words :
             words[i] = IF tx.words[i] = tx.from THEN w ELSE tx.words[i]
       \/ way.rank = 3 /\ \A i \in DOMAIN tx.words :
             words[i] = IF i \in AddressInputs(Signatures[tx.fn]) THEN w ELSE tx.words[i]
       \/ way.rank = 4 /\ \A i \in DOMAIN tx.words : words[i] = tx.words[i]

(* Every way of buildAutoMintCalls builds such words.                       *)
LEMMA CallWords ==
    ASSUME NEW tx \in Feed, NEW quantity, NEW w,
           NEW way \in buildAutoMintCalls(tx, tx.from, quantity)
    PROVE  Built(tx, way, w, buildFor(way, w).words)
<1>0. PICK words : words = buildFor(way, w).words
  OBVIOUS
<1>1. tx \in [to : Addresses, fn : STRING, words : Seq(Addresses \cup Nat),
              from : (Addresses \ Targets) \cup {NoSender}, value : Nat]
  BY FeedAssumption
<1>2. ASSUME NEW d, d = [tx EXCEPT !.words = d.words], DOMAIN d.words = DOMAIN tx.words,
             NEW positions, NEW word
      PROVE  /\ DOMAIN Put(d, positions, word).words = DOMAIN tx.words
             /\ Len(Put(d, positions, word).words) = Len(tx.words)
             /\ \A i \in DOMAIN tx.words :
                   Put(d, positions, word).words[i] = IF i \in positions THEN word ELSE d.words[i]
             /\ Put(d, positions, word) = [tx EXCEPT !.words = Put(d, positions, word).words]
  BY <1>1, <1>2 DEF Put
<1>3. tx = [tx EXCEPT !.words = tx.words]
  BY <1>1
<1>4. \/ way = Bulk(tx, quantity) /\ findQuantityWord(tx) # {}
      \/ way = Swap(tx, tx.from) \/ way = Rebuilt(tx) \/ way = Verbatim(tx)
  BY DEF buildAutoMintCalls, Distinct, OnlyIf
<1>5. CASE way = Bulk(tx, quantity) /\ findQuantityWord(tx) # {}
  <2> SUFFICES Built(tx, way, w, words)
    BY <1>0
  <2>1. PICK d : d = setQuantity(tx, quantity)
    OBVIOUS
  <2>2. d = [tx EXCEPT !.words = d.words] /\ DOMAIN d.words = DOMAIN tx.words
    BY <1>2, <1>3, <2>1 DEF setQuantity
  <2>3. words = Put(d, {}, w).words
    BY <1>0, <1>5, <2>1 DEF Bulk, Way, buildFor
  <2>. QED
    BY <1>2, <1>5, <2>2, <2>3 DEF Built
<1>6. CASE way = Swap(tx, tx.from)
  <2> SUFFICES Built(tx, way, w, words)
    BY <1>0
  <2>1. way.rank = 2 /\ words = Put(tx, findAddressWords(tx, tx.from), w).words
    BY <1>0, <1>6 DEF Swap, Way, buildFor
  <2>. QED
    BY <1>2, <1>3, <2>1 DEF findAddressWords, Built
<1>7. CASE way = Rebuilt(tx)
  <2> SUFFICES Built(tx, way, w, words)
    BY <1>0
  <2>1. way.rank = 3 /\ words = Put(tx, AddressInputs(Signatures[tx.fn]), w).words
    BY <1>0, <1>7 DEF Rebuilt, Way, buildFor
  <2>. QED
    BY <1>2, <1>3, <2>1 DEF Built
<1>8. CASE way = Verbatim(tx)
  <2> SUFFICES Built(tx, way, w, words)
    BY <1>0
  <2>1. way.rank = 4 /\ words = Put(tx, {}, w).words
    BY <1>0, <1>8 DEF Verbatim, Way, buildFor
  <2>. QED
    BY <1>2, <1>3, <2>1 DEF Built
<1>. QED
  BY <1>0, <1>4, <1>5, <1>6, <1>7, <1>8

(* Calldata with an address in it has no word that may be a count.          *)
LEMMA NoCountBesideAnAddress ==
    ASSUME NEW tx, NEW i \in DOMAIN tx.words, tx.words[i] \in Addresses
    PROVE  findQuantityWord(tx) = {}
<1>1. tx.words[i] # 0
  BY FeedAssumption
<1>. QED
  BY <1>1 DEF findQuantityWord

(* Where a call names its collection.                                       *)
LEMMA CollectionWord ==
    ASSUME NEW call, call.to \in DOMAIN Runs, call.fn \in DOMAIN Runs[call.to]
    PROVE  Mints(call) = IF call.fn \in ProxyFns THEN call.words[1] ELSE call.to
<1>1. RoleOf(call, "collection") = IF call.fn \in ProxyFns THEN {1} ELSE {}
  BY ProxyAssumption DEF RoleOf, Roles
<1>2. (CHOOSE i \in {1} : TRUE) = 1
  OBVIOUS
<1>3. {1} # {}
  OBVIOUS
<1>. QED
  BY <1>1, <1>2, <1>3 DEF Mints, WordOf

(* A call that a simulation lets through mints the collection of the plan,  *)
(* from whichever of our wallets it is sent.                                 *)
LEMMA MintsWhatWasChosen ==
    ASSUME DropContractsApart, NEW p, PlanOf(p), NEW refused, NEW way \in Ways(p),
           Works(CallOf(p, way, First), refused), NEW w \in Wallets
    PROVE  Mints(CallOf(p, way, w)) = p.collection
<1> DEFINE tx == p.sample
           mine == CallOf(p, way, First)
           call == CallOf(p, way, w)
<1>1. /\ mine.to = p.sendTo /\ mine.fn = tx.fn /\ mine.words = buildFor(way, First).words
      /\ call.to = p.sendTo /\ call.fn = tx.fn /\ call.words = buildFor(way, w).words
  BY DEF CallOf
<1>2. tx \in Feed /\ mintTarget(tx) = p.collection /\ way \in buildAutoMintCalls(tx, tx.from, p.quantity)
  BY DEF PlanOf, SampleOf, Ways
<1>3. mine.to \in DOMAIN Runs /\ mine.fn \in DOMAIN Runs[mine.to] /\ Mints(mine) \in Targets
  BY DEF Works
<1>. HIDE DEF mine, call
<1>4. CASE tx.fn \notin ProxyFns
  <2>1. tx.to = p.collection
    BY <1>2, <1>4 DEF mintTarget
  <2>2. ~Drop(p.sendTo)
    BY <1>1, <1>3, <1>4 DEF Drop, DropContractsApart
  <2>3. p.sendTo = p.collection
    BY <2>2 DEF PlanOf
  <2>4. Mints(call) = call.to
    BY <1>1, <1>3, <1>4, CollectionWord
  <2>. QED
    BY <1>1, <2>3, <2>4 DEF call
<1>5. CASE tx.fn \in ProxyFns
  <2>1. Mints(mine) = mine.words[1] /\ Mints(call) = call.words[1]
    BY <1>1, <1>3, <1>5, CollectionWord
  <2>2. p.collection \in Targets /\ p.collection \in Addresses /\ NoTarget \notin Addresses
    BY FeedAssumption DEF PlanOf, NoTarget
  <2>3. tx.words # <<>> /\ tx.words[1] = p.collection
    BY <1>2, <1>5, <2>2 DEF mintTarget
  <2>4. tx.words \in Seq(Addresses \cup Nat) /\ tx.from \notin Targets
    BY <1>2, FeedAssumption
  <2>5. 1 \in DOMAIN tx.words
    BY <2>3, <2>4
  <2>6. findQuantityWord(tx) = {}
    BY <2>2, <2>3, <2>5, NoCountBesideAnAddress
  <2>7. First \notin Targets
    BY FeedAssumption
  <2>8. PICK mw, cw : mw = mine.words /\ cw = call.words
    OBVIOUS
  <2>9. Built(tx, way, First, mw) /\ Built(tx, way, w, cw)
    BY <1>1, <1>2, <2>8, CallWords
  <2>10. \/ way.rank = 2 /\ mw[1] = (IF tx.words[1] = tx.from THEN First ELSE tx.words[1])
         \/ way.rank = 3 /\ mw[1] = (IF 1 \in AddressInputs(Signatures[tx.fn]) THEN First ELSE tx.words[1])
         \/ way.rank = 4 /\ mw[1] = tx.words[1]
    BY <2>5, <2>6, <2>9 DEF Built
  <2>11. \/ way.rank = 2 /\ cw[1] = (IF tx.words[1] = tx.from THEN w ELSE tx.words[1])
         \/ way.rank = 3 /\ cw[1] = (IF 1 \in AddressInputs(Signatures[tx.fn]) THEN w ELSE tx.words[1])
         \/ way.rank = 4 /\ cw[1] = tx.words[1]
    BY <2>5, <2>6, <2>9 DEF Built
  <2>12. cw[1] = p.collection
    BY <1>3, <2>1, <2>2, <2>3, <2>4, <2>7, <2>8, <2>10, <2>11
  <2>. QED
    BY <2>1, <2>8, <2>12 DEF call
<1>. QED
  BY <1>4, <1>5

(* A function means to our call what it meant to the sample.                *)
LEMMA SameRoles ==
    ASSUME DropContractsApart, NEW p, PlanOf(p),
           p.sendTo \in DOMAIN Runs, p.sample.fn \in DOMAIN Runs[p.sendTo],
           p.sample.to \in DOMAIN Runs, p.sample.fn \in DOMAIN Runs[p.sample.to]
    PROVE  Runs[p.sendTo][p.sample.fn] = Runs[p.sample.to][p.sample.fn]
<1>1. CASE p.sample.fn \in ProxyFns
  BY <1>1, ProxyAssumption
<1>2. CASE p.sample.fn \notin ProxyFns
  <2>1. p.sample.to = p.collection
    BY <1>2 DEF PlanOf, SampleOf, mintTarget
  <2>2. ~Drop(p.sendTo)
    BY <1>2 DEF Drop, DropContractsApart
  <2>. QED
    BY <2>1, <2>2 DEF PlanOf
<1>. QED
  BY <1>1, <1>2

(* Where the sender stands in the calldata, putting our wallet in its place *)
(* is the first way that is tried.                                          *)
LEMMA SwapIsFirst ==
    ASSUME NEW tx, NEW quantity, findQuantityWord(tx) = {}, findAddressWords(tx, tx.from) # {}
    PROVE  /\ Swap(tx, tx.from) \in buildAutoMintCalls(tx, tx.from, quantity)
           /\ \A way \in buildAutoMintCalls(tx, tx.from, quantity) :
                 way.rank = 2 \/ way.rank > Swap(tx, tx.from).rank
<1> DEFINE ways == {Swap(tx, tx.from)} \cup OnlyIf(Decodes(tx), Rebuilt(tx)) \cup {Verbatim(tx)}
<1>1. buildAutoMintCalls(tx, tx.from, quantity) = Distinct(ways)
  BY DEF buildAutoMintCalls, OnlyIf
<1>2. Swap(tx, tx.from).rank = 2 /\ Rebuilt(tx).rank = 3 /\ Verbatim(tx).rank = 4
  BY DEF Swap, Rebuilt, Verbatim, Way
<1>3. \A way \in ways : way.rank \in {2, 3, 4}
  BY <1>2 DEF OnlyIf
<1>4. \A way \in ways : ~(way.rank < 2) /\ (way.rank = 2 \/ way.rank > 2)
  BY <1>3
<1>5. Swap(tx, tx.from) \in ways
  OBVIOUS
<1>. HIDE DEF ways
<1>. QED
  BY <1>1, <1>2, <1>4, <1>5 DEF Distinct

(* If any way of building a call lets it through, the swap does, where the  *)
(* sample minted to its own sender and wallets[0] is not refused.           *)
LEMMA SwapWorks ==
    ASSUME DropContractsApart, NEW p, PlanOf(p), NEW refused, First \notin refused,
           NEW way \in Ways(p), Works(CallOf(p, way, First), refused),
           findQuantityWord(p.sample) = {},
           NEW r, r = (CHOOSE i \in RoleOf(CallOf(p, way, First), "recipient") : TRUE),
           r \in RoleOf(CallOf(p, way, First), "recipient"),
           p.sample.words[r] = p.sample.from,
           NEW swap \in Ways(p), swap.rank = 2
    PROVE  Works(CallOf(p, swap, First), refused)
<1>0. PICK tx, mine, call : tx = p.sample /\ mine = CallOf(p, way, First) /\ call = CallOf(p, swap, First)
  OBVIOUS
<1>1. /\ mine.to = p.sendTo /\ mine.fn = tx.fn /\ mine.words = buildFor(way, First).words
      /\ call.to = p.sendTo /\ call.fn = tx.fn /\ call.words = buildFor(swap, First).words
      /\ mine.value = call.value
  BY <1>0 DEF CallOf
<1>2. /\ tx \in Feed /\ mintTarget(tx) = p.collection
      /\ way \in buildAutoMintCalls(tx, tx.from, p.quantity)
      /\ swap \in buildAutoMintCalls(tx, tx.from, p.quantity)
  BY <1>0 DEF PlanOf, SampleOf, Ways
<1>3. PICK mw, cw : mw = mine.words /\ cw = call.words
  OBVIOUS
<1>4. Built(tx, way, First, mw) /\ Built(tx, swap, First, cw)
  BY <1>1, <1>2, <1>3, CallWords
<1>5. /\ mine.to \in DOMAIN Runs /\ mine.fn \in DOMAIN Runs[mine.to]
      /\ Len(mw) = Len(Roles(mine)) /\ Mints(mine) \in Targets
      /\ WordOf(mine, "quantity", 1) \in Nat
      /\ mine.value = PriceOf(Mints(mine)) * WordOf(mine, "quantity", 1)
  BY <1>0, <1>3 DEF Works
<1>6. Roles(call) = Roles(mine) /\ \A role : RoleOf(call, role) = RoleOf(mine, role)
  BY <1>1 DEF Roles, RoleOf
<1>7. tx.words \in Seq(Addresses \cup Nat) /\ tx.from \in (Addresses \ Targets) \cup {NoSender}
  BY <1>2, FeedAssumption
<1>8. /\ DOMAIN mw = DOMAIN tx.words /\ DOMAIN cw = DOMAIN tx.words /\ Len(cw) = Len(mw)
      /\ DOMAIN Roles(mine) = DOMAIN tx.words
  <2>1. Roles(mine) \in Seq(STRING)
    BY <1>5, ProxyAssumption DEF Roles
  <2>2. DOMAIN Roles(mine) = 1 .. Len(tx.words) /\ DOMAIN tx.words = 1 .. Len(tx.words)
    BY <1>4, <1>5, <1>7, <2>1 DEF Built
  <2>. QED
    BY <1>4, <2>2 DEF Built
<1>9. \A i \in DOMAIN tx.words : cw[i] = IF tx.words[i] = tx.from THEN First ELSE tx.words[i]
  BY <1>0, <1>4 DEF Built
<1>10. Mints(call) = Mints(mine)
  <2>1. CASE tx.fn \notin ProxyFns
    BY <1>1, <1>5, <2>1, CollectionWord
  <2>2. CASE tx.fn \in ProxyFns
    <3>1. Mints(call) = cw[1] /\ Mints(mine) = p.collection
      <4>1. First \in Wallets
        BY FeedAssumption
      <4>. QED
        BY <1>0, <1>1, <1>3, <1>5, <2>2, <4>1, CollectionWord, MintsWhatWasChosen
    <3>2. p.collection \in Targets /\ p.collection \in Addresses /\ NoTarget \notin Addresses
      BY FeedAssumption DEF PlanOf, NoTarget
    <3>3. tx.words # <<>> /\ tx.words[1] = p.collection
      BY <1>2, <2>2, <3>2 DEF mintTarget
    <3>4. 1 \in DOMAIN tx.words /\ tx.from # p.collection
      BY <1>2, <1>7, <3>2, <3>3, FeedAssumption
    <3>. QED
      BY <1>9, <3>1, <3>3, <3>4
  <2>. QED
    BY <2>1, <2>2
<1>11. Recipient(call) = First
  <2>1. r \in DOMAIN tx.words /\ r \in RoleOf(mine, "recipient") /\ tx.words[r] = tx.from
        /\ r = (CHOOSE i \in RoleOf(mine, "recipient") : TRUE)
    BY <1>0, <1>8 DEF RoleOf
  <2>2. cw[r] = First
    BY <1>9, <2>1
  <2>. QED
    BY <1>3, <1>6, <2>1, <2>2 DEF Recipient, WordOf
<1>12. WordOf(call, "quantity", 1) = WordOf(mine, "quantity", 1)
  <2>1. CASE RoleOf(mine, "quantity") = {}
    BY <1>6, <2>1 DEF WordOf
  <2>2. CASE RoleOf(mine, "quantity") # {}
    <3>1. PICK q : q = (CHOOSE i \in RoleOf(mine, "quantity") : TRUE)
      OBVIOUS
    <3>2. q \in RoleOf(mine, "quantity")
      BY <2>2, <3>1
    <3>3. q \in DOMAIN tx.words
      BY <1>8, <3>2 DEF RoleOf
    <3>4. WordOf(mine, "quantity", 1) = mw[q] /\ WordOf(call, "quantity", 1) = cw[q]
      BY <1>3, <1>6, <2>2, <3>1 DEF WordOf
    <3>5. First \notin Nat /\ tx.from \notin Nat
      BY <1>7, FeedAssumption
    <3>6. mw[q] \in Nat
      BY <1>5, <3>4
    <3>7. mw[q] = First \/ mw[q] = tx.words[q]
      BY <1>0, <1>4, <3>3 DEF Built
    <3>8. cw[q] = mw[q]
      BY <1>9, <3>3, <3>5, <3>6, <3>7
    <3>. QED
      BY <3>4, <3>8
  <2>. QED
    BY <2>1, <2>2
<1>13. First \in Addresses \ refused
  BY FeedAssumption
<1>. QED
  BY <1>0, <1>1, <1>3, <1>5, <1>6, <1>8, <1>10, <1>11, <1>12, <1>13 DEF Works

(* Where the sample minted to its own sender, ours mints to the wallet that *)
(* sends it, unless the collection refuses wallets[0].                      *)
LEMMA MintsToItsSender ==
    ASSUME DropContractsApart, NEW p, PlanOf(p), OwnMint(p.sample),
           NEW refused, First \notin refused,
           NEW way \in Ways(p), Works(CallOf(p, way, First), refused),
           \A other \in Ways(p) : other.rank < way.rank => ~Works(CallOf(p, other, First), refused),
           NEW w \in Wallets
    PROVE  Recipient(CallOf(p, way, w)) = w
<1>0. PICK tx, mine, call : tx = p.sample /\ mine = CallOf(p, way, First) /\ call = CallOf(p, way, w)
  OBVIOUS
<1>1. /\ mine.to = p.sendTo /\ mine.fn = tx.fn /\ mine.words = buildFor(way, First).words
      /\ call.to = p.sendTo /\ call.fn = tx.fn /\ call.words = buildFor(way, w).words
      /\ call.from = w
  BY <1>0 DEF CallOf
<1>2. /\ tx \in Feed /\ way \in buildAutoMintCalls(tx, tx.from, p.quantity)
  BY <1>0 DEF PlanOf, SampleOf, Ways
<1>3. mine.to \in DOMAIN Runs /\ mine.fn \in DOMAIN Runs[mine.to] /\ Len(mine.words) = Len(Roles(mine))
  BY <1>0 DEF Works
<1>4. tx.to \in DOMAIN Runs /\ tx.fn \in DOMAIN Runs[tx.to] /\ Recipient(tx) = tx.from
  BY <1>0 DEF OwnMint
<1>5. Roles(call) = Roles(mine) /\ Roles(tx) = Roles(mine)
      /\ \A role : RoleOf(call, role) = RoleOf(mine, role) /\ RoleOf(tx, role) = RoleOf(mine, role)
  <2>1. Roles(tx) = Roles(mine) /\ Roles(call) = Roles(mine)
    BY <1>0, <1>1, <1>3, <1>4, SameRoles DEF Roles
  <2>. QED
    BY <2>1 DEF RoleOf
<1>6. CASE RoleOf(mine, "recipient") = {}
  BY <1>0, <1>1, <1>5, <1>6 DEF Recipient, WordOf
<1>7. CASE RoleOf(mine, "recipient") # {}
  <2>1. PICK r : r = (CHOOSE i \in RoleOf(mine, "recipient") : TRUE)
    OBVIOUS
  <2>2. r \in RoleOf(mine, "recipient")
    BY <1>7, <2>1
  <2>3. tx.words[r] = tx.from /\ Recipient(call) = call.words[r]
    BY <1>4, <1>5, <1>7, <2>1 DEF Recipient, WordOf
  <2>4. PICK mw, cw : mw = mine.words /\ cw = call.words
    OBVIOUS
  <2>5. Built(tx, way, First, mw) /\ Built(tx, way, w, cw)
    BY <1>1, <1>2, <2>4, CallWords
  <2>6. tx.words \in Seq(Addresses \cup Nat) /\ tx.from \in (Addresses \ Targets) \cup {NoSender}
    BY <1>2, FeedAssumption
  <2>7. r \in DOMAIN tx.words
    <3>1. Roles(mine) \in Seq(STRING)
      BY <1>3, ProxyAssumption DEF Roles
    <3>2. r \in DOMAIN Roles(mine) /\ DOMAIN Roles(mine) = 1 .. Len(mw)
      BY <1>3, <2>2, <2>4, <3>1 DEF RoleOf
    <3>. QED
      BY <2>5, <2>6, <3>2 DEF Built
  <2>8. tx.from \in Addresses
    BY <2>3, <2>6, <2>7, FeedAssumption
  <2>9. findQuantityWord(tx) = {}
    BY <2>3, <2>7, <2>8, NoCountBesideAnAddress
  <2>10. findAddressWords(tx, tx.from) # {}
    BY <2>3, <2>7 DEF findAddressWords
  <2>11. PICK swap : swap = Swap(tx, tx.from)
    OBVIOUS
  <2>12. swap \in Ways(p) /\ swap.rank = 2 /\ (way.rank = 2 \/ way.rank > swap.rank)
    <3>1. swap.rank = 2
      BY <2>11 DEF Swap, Way
    <3>. QED
      BY <1>0, <1>2, <2>9, <2>10, <2>11, <3>1, SwapIsFirst DEF Ways
  <2>13. Works(CallOf(p, swap, First), refused)
    BY <1>0, <2>1, <2>2, <2>3, <2>9, <2>12, SwapWorks
  <2>14. way.rank = 2
    <3>1. way.rank > swap.rank => swap.rank < way.rank
      BY <2>5, <2>9, <2>12 DEF Built
    <3>. QED
      BY <2>12, <2>13, <3>1
  <2>15. cw[r] = w
    BY <2>3, <2>5, <2>7, <2>9, <2>14 DEF Built
  <2>. QED
    BY <1>0, <2>3, <2>4, <2>15
<1>. QED
  BY <1>6, <1>7

----------------------------------------------------------------------------
(* What trackers, the cache and a plan know of the feed: a sample filed      *)
(* under a collection minted that collection, and a drop contract is one the *)
(* feed sends such mints to.                                                 *)
StatsOf(c, s) ==
    /\ s = [calls |-> s.calls, value |-> s.value, samples |-> s.samples,
            promoted |-> s.promoted, mintVia |-> s.mintVia]
    /\ s.calls \in Seq(STRING) /\ s.value \in Nat
    /\ s.promoted => s.calls # <<>>
    /\ s.mintVia = NoVia \/ Drop(s.mintVia)
    /\ \A fn \in DOMAIN s.samples : SampleOf(c, s.samples[fn])

TrackerOf(tracker) ==
    /\ tracker = [c \in Targets |-> tracker[c]]
    /\ \A c \in Targets : StatsOf(c, tracker[c])

RowOf(c, r) ==
    /\ r.value \in Nat
    /\ r.sample = NoSample \/ SampleOf(c, r.sample)
    /\ r.mintVia = NoVia \/ Drop(r.mintVia)

CachedOf(c, r) ==
    /\ SampleOf(c, r.sample) /\ r.price \in Nat
    /\ r.mintVia = NoVia \/ Drop(r.mintVia)

SeenInv ==
    /\ TrackerOf(served) /\ TrackerOf(sampled)
    /\ \A c \in Targets : cache[c] = NoRow \/ CachedOf(c, cache[c])

PlanInv ==
    /\ plan = NoPlan \/ PlanOf(plan)
    /\ plan = NoPlan => sent = {}
    /\ SendsWhatWasSeen

(* A tracker that heard nothing. *)
LEMMA UnheardKnows == TrackerOf(Unheard)
<1>1. \A c : StatsOf(c, NoStats)
  BY DEF StatsOf, NoStats
<1>. QED
  BY <1>1 DEF TrackerOf, Unheard

(* One transaction more is filed under what it mints. *)
LEMMA IngestKnows ==
    ASSUME NEW tracker, TrackerOf(tracker), NEW tx \in Feed, NEW n
    PROVE  TrackerOf(ingest(tracker, tx, n))
<1>1. PICK target : target = mintTarget(tx)
  OBVIOUS
<1>2. CASE ~classifyMint(tx).isMint \/ target \notin Targets
  BY <1>1, <1>2 DEF ingest
<1>3. CASE classifyMint(tx).isMint /\ target \in Targets
  <2>1. PICK s : s = tracker[target]
    OBVIOUS
  <2>2. StatsOf(target, s)
    BY <1>3, <2>1 DEF TrackerOf
  <2>3. tx.fn \in STRING /\ tx.value \in Nat /\ SampleOf(target, tx)
    BY <1>1, FeedAssumption DEF SampleOf
  <2>4. PICK k : k = Counted(s, tx, n)
    OBVIOUS
  <2>5. PICK promoted : promoted = k.promoted
    OBVIOUS
  <2>6. /\ k = [calls |-> Append(s.calls, tx.fn), value |-> s.value + tx.value,
                samples |-> s.samples, promoted |-> promoted,
                mintVia |-> IF tx.fn \in ProxyFns THEN tx.to ELSE s.mintVia]
    BY <2>2, <2>4, <2>5 DEF Counted, StatsOf
  <2>7. Append(s.calls, tx.fn) \in Seq(STRING) /\ Append(s.calls, tx.fn) # <<>>
        /\ s.value + tx.value \in Nat
    BY <2>2, <2>3 DEF StatsOf
  <2>8. tx.fn \in ProxyFns => Drop(tx.to)
    BY DEF Drop
  <2>9. StatsOf(target, k)
    <3>1. k.mintVia = NoVia \/ Drop(k.mintVia)
      BY <2>2, <2>6, <2>8 DEF StatsOf
    <3>2. \A fn \in DOMAIN k.samples : SampleOf(target, k.samples[fn])
      BY <2>2, <2>6 DEF StatsOf
    <3>3. /\ k = [calls |-> k.calls, value |-> k.value, samples |-> k.samples,
                  promoted |-> k.promoted, mintVia |-> k.mintVia]
          /\ k.calls \in Seq(STRING) /\ k.calls # <<>> /\ k.value \in Nat
      BY <2>6, <2>7
    <3>. QED
      BY <3>1, <3>2, <3>3 DEF StatsOf
  <2>10. StatsOf(target, WithSample(k, tx))
    <3>1. CASE ~(k.promoted /\ tx.fn \notin DOMAIN k.samples)
      BY <2>9, <3>1 DEF WithSample
    <3>2. CASE k.promoted /\ tx.fn \notin DOMAIN k.samples
      <4>1. PICK samples : samples = [fn \in DOMAIN k.samples \cup {tx.fn} |->
                                         IF fn = tx.fn THEN tx ELSE k.samples[fn]]
        OBVIOUS
      <4>2. \A fn \in DOMAIN samples : SampleOf(target, samples[fn])
        BY <2>3, <2>9, <4>1 DEF StatsOf
      <4>3. PICK t : t = WithSample(k, tx)
        OBVIOUS
      <4>4. t = [calls |-> k.calls, value |-> k.value, samples |-> samples,
                 promoted |-> k.promoted, mintVia |-> k.mintVia]
        BY <2>9, <3>2, <4>1, <4>3 DEF WithSample, StatsOf
      <4>5. StatsOf(target, t)
        BY <2>9, <4>2, <4>4 DEF StatsOf
      <4>. QED
        BY <4>3, <4>5
    <3>. QED
      BY <3>1, <3>2
  <2>11. PICK t : t = WithSample(k, tx)
    OBVIOUS
  <2>12. ingest(tracker, tx, n) = [tracker EXCEPT ![target] = t]
    BY <1>1, <1>3, <2>1, <2>4, <2>11 DEF ingest
  <2>13. StatsOf(target, t)
    BY <2>10, <2>11
  <2>. QED
    BY <1>3, <2>12, <2>13 DEF TrackerOf
<1>. QED
  BY <1>2, <1>3

(* A row of a snapshot says what its tracker knows. *)
LEMMA SnapshotKnows ==
    ASSUME NEW tracker, TrackerOf(tracker), NEW c \in Targets, NEW r,
           r = snapshot(tracker)[c], r # NoRow
    PROVE  RowOf(c, r)
<1>1. PICK s : s = tracker[c]
  OBVIOUS
<1>2. StatsOf(c, s)
  BY <1>1 DEF TrackerOf
<1>3. s.promoted /\ r = TrackedRow(s)
  BY <1>1 DEF snapshot
<1>4. s.calls \in Seq(STRING) /\ s.calls # <<>> /\ s.value \in Nat
  BY <1>2, <1>3 DEF StatsOf
<1>5. PICK many : many = Len(s.calls)
  OBVIOUS
<1>6. many \in Nat \ {0}
  BY <1>4, <1>5
<1>7. s.value \div many \in Nat
  BY <1>4, <1>6
<1>8. PICK top : top = topSelector(s.calls)
  OBVIOUS
<1>9. /\ r.value = s.value \div many /\ r.mintVia = s.mintVia
      /\ r.sample = IF top \in DOMAIN s.samples THEN s.samples[top] ELSE NoSample
  BY <1>3, <1>5, <1>8 DEF TrackedRow
<1>. QED
  BY <1>2, <1>7, <1>9 DEF RowOf, StatsOf

(* What a contract asks for a token is a number of wei. *)
LEMMA PricesAreNumbers ==
    ASSUME NEW c \in Targets, NEW failed, NEW facts, facts = inspectContract(Answers[c], failed),
           kind(facts) # "unverified", Known(facts.price)
    PROVE  facts.price \in Nat
<1>1. facts # NoInfo
  BY DEF kind
<1>2. "code" \notin failed
  BY <1>1 DEF inspectContract
<1>3. facts.price = NoAnswer \/ facts.price = probeFirst(Answers[c], failed, PRICE_FNS)
  BY <1>2, Zenon DEF inspectContract
<1>4. PICK p : p = probeFirst(Answers[c], failed, PRICE_FNS)
  OBVIOUS
<1>5. p # NoAnswer => p \in Nat
  <2> SUFFICES ASSUME p # NoAnswer PROVE p \in Nat
    OBVIOUS
  <2> DEFINE answered == {i \in DOMAIN PRICE_FNS : Known(probe(Answers[c], failed, PRICE_FNS[i]))}
  <2>1. PICK first : first = CHOOSE i \in answered : \A j \in answered : i <= j
    OBVIOUS
  <2>2. answered # {} /\ p = Answers[c][PRICE_FNS[first]]
    BY <1>4, <2>1 DEF probeFirst
  <2>3. answered \subseteq 1 .. 2
    BY DEF PRICE_FNS
  <2>4. \E i \in answered : \A j \in answered : i <= j
    <3>. HIDE DEF answered
    <3>1. CASE 1 \in answered
      BY <2>3, <3>1
    <3>2. CASE 1 \notin answered
      <4>1. \A j \in answered : j = 2
        BY <2>3, <3>2
      <4>2. 2 \in answered
        BY <2>2, <4>1
      <4>. QED
        BY <4>1, <4>2
    <3>. QED
      BY <3>1, <3>2
  <2>5. first \in answered
    BY <2>1, <2>4
  <2>6. PRICE_FNS[first] \in DOMAIN Answers[c] /\ first \in DOMAIN PRICE_FNS
    BY <2>5 DEF probe, Known
  <2>. QED
    BY <2>2, <2>6, FeedAssumption
<1>. QED
  BY <1>3, <1>4, <1>5 DEF Known

(* Nothing is known before the feed is. *)
LEMMA SeenStart == MintNowInit => SeenInv /\ PlanInv
BY UnheardKnows DEF MintNowInit, BoardInit, SeenInv, PlanInv, NoRows, SendsWhatWasSeen

(* A request listens, or is answered: its own tracker is gone. *)
LEMMA AnsweredKnows ==
    ASSUME SeenInv, Answered
    PROVE  TrackerOf(served') /\ TrackerOf(sampled')
BY UnheardKnows DEF SeenInv, Answered

(* The rows of a snapshot, whichever tracker it is of. *)
LEMMA CollectedKnows ==
    ASSUME SeenInv, NEW c \in Targets, NEW r, r = collectSnapshot[c], r # NoRow
    PROVE  RowOf(c, r)
<1>1. CASE listening
  BY <1>1, SnapshotKnows DEF collectSnapshot, SeenInv
<1>2. CASE ~listening
  BY <1>2, SnapshotKnows DEF collectSnapshot, SeenInv
<1>. QED
  BY <1>1, <1>2

(* The board leaves rows in the cache that are from the snapshot and priced *)
(* by the contract.                                                          *)
LEMMA BoardKnows ==
    ASSUME SeenInv, runLiveBoard
    PROVE  SeenInv'
<1>1. TrackerOf(served') /\ TrackerOf(sampled')
  BY AnsweredKnows DEF runLiveBoard
<1> DEFINE rows == collectSnapshot
           Info(unreadable, c) == inspectContract(Answers[c], IF c \in unreadable THEN {"code"} ELSE {})
           listed == {c \in Targets : rows[c] # NoRow /\ rows[c].attempts >= MinMints}
           shown(shortlist, unreadable) ==
              {c \in shortlist : kind(Info(unreadable, c)) # "unverified" /\ rows[c].sample # NoSample}
<1>2. PICK shortlist \in kSubset(Min({InspectTop, Cardinality(listed)}), listed) :
        \E unreadable \in SUBSET shortlist :
           \E landed \in SUBSET shown(shortlist, unreadable), timed \in BOOLEAN :
              cache' = [c \in Targets |-> IF c \in landed THEN toLiveMint(rows[c], Info(unreadable, c))
                                         ELSE cache[c]]
  BY DEF runLiveBoard
<1>3. PICK unreadable \in SUBSET shortlist :
        \E landed \in SUBSET shown(shortlist, unreadable), timed \in BOOLEAN :
           cache' = [c \in Targets |-> IF c \in landed THEN toLiveMint(rows[c], Info(unreadable, c))
                                      ELSE cache[c]]
  BY <1>2
<1>4. PICK landed \in SUBSET shown(shortlist, unreadable) :
        cache' = [c \in Targets |-> IF c \in landed THEN toLiveMint(rows[c], Info(unreadable, c))
                                   ELSE cache[c]]
  BY <1>3
<1>5. shortlist \subseteq listed
  BY <1>4, Zenon DEF kSubset
<1>6. /\ \A c \in landed :
              /\ c \in Targets /\ collectSnapshot[c] # NoRow /\ collectSnapshot[c].sample # NoSample
              /\ kind(inspectContract(Answers[c], IF c \in unreadable THEN {"code"} ELSE {})) # "unverified"
      /\ cache' = [c \in Targets |->
              IF c \in landed
              THEN toLiveMint(collectSnapshot[c],
                              inspectContract(Answers[c], IF c \in unreadable THEN {"code"} ELSE {}))
              ELSE cache[c]]
  BY <1>4, <1>5, Zenon
<1>. HIDE DEF rows, Info, listed, shown
<1>7. ASSUME NEW c \in Targets
      PROVE  cache'[c] = NoRow \/ CachedOf(c, cache'[c])
  <2>1. CASE c \in landed
    <3>1. PICK r, u, facts : /\ r = collectSnapshot[c] /\ u = (IF c \in unreadable THEN {"code"} ELSE {})
                            /\ facts = inspectContract(Answers[c], u)
      OBVIOUS
    <3>2. RowOf(c, r) /\ r.sample # NoSample
      BY <1>6, <2>1, <3>1, CollectedKnows
    <3>3. kind(facts) # "unverified"
      BY <1>6, <2>1, <3>1, Zenon
    <3>4. PICK new : new = toLiveMint(r, facts)
      OBVIOUS
    <3>5. Known(facts.price) => facts.price \in Nat
      BY <3>1, <3>3, PricesAreNumbers
    <3>6. CachedOf(c, new)
      BY <3>2, <3>4, <3>5 DEF toLiveMint, CachedOf, RowOf
    <3>7. cache'[c] = new
      BY <1>6, <2>1, <3>1, <3>4, Zenon
    <3>. QED
      BY <3>6, <3>7
  <2>2. CASE c \notin landed
    <3>1. cache'[c] = cache[c]
      BY <1>6, <2>2, Zenon
    <3>. QED
      BY <3>1 DEF SeenInv
  <2>. QED
    BY <2>1, <2>2
<1>. QED
  BY <1>1, <1>7 DEF SeenInv

(* No step of the feed, the board or the cache loses track of what minted   *)
(* what.                                                                     *)
LEMMA SeenStep ==
    ASSUME SeenInv, [MintNowNext]_mintNowVars
    PROVE  SeenInv'
<1>1. CASE UNCHANGED <<served, sampled, cache>>
  BY <1>1 DEF SeenInv
<1>2. ASSUME NEW tx \in Feed, FeedTx(tx) PROVE SeenInv'
  <2>1. TrackerOf(served') /\ TrackerOf(sampled') /\ cache' = cache
    BY <1>2, IngestKnows DEF SeenInv, FeedTx, cacheVars
  <2>. QED
    BY <2>1 DEF SeenInv
<1>3. CASE Listen BY <1>1, <1>3 DEF Listen, cacheVars
<1>4. CASE runLiveBoard BY <1>4, BoardKnows
<1>5. CASE AnswerOnly
  <2>1. TrackerOf(served') /\ TrackerOf(sampled') /\ cache' = cache
    BY <1>5, AnsweredKnows DEF AnswerOnly, cacheVars
  <2>. QED
    BY <2>1 DEF SeenInv
<1>6. CASE Tick
  <2>1. served' = served /\ sampled' = sampled /\ (cache' = NoRows \/ cache' = cache)
    BY <1>6 DEF Tick, trackerVars
  <2>. QED
    BY <2>1 DEF SeenInv, NoRows
<1>7. ASSUME NEW c \in Targets, Press(c) PROVE SeenInv'
  BY <1>1, <1>7 DEF Press, boardVars, cacheVars, trackerVars
<1>8. ASSUME NEW c \in Targets, Qualify(c) PROVE SeenInv'
  BY <1>5, <1>8 DEF Qualify
<1>9. CASE mintCandidate BY <1>1, <1>9 DEF mintCandidate, boardVars, cacheVars, trackerVars
<1>10. CASE Report BY <1>1, <1>10 DEF Report, boardVars, cacheVars, trackerVars
<1>11. CASE UNCHANGED mintNowVars BY <1>1, <1>11 DEF mintNowVars, boardVars, cacheVars, trackerVars
<1>. QED
  BY <1>2, <1>3, <1>4, <1>5, <1>6, <1>7, <1>8, <1>9, <1>10, <1>11 DEF MintNowNext, BoardNext

(* The lesser of a price and the ceiling. *)
LEMMA Capped ==
    ASSUME NEW a \in Nat, NEW b \in Nat
    PROVE  Min({a, b}) \in Nat /\ Min({a, b}) <= b
<1>1. PICK m : m = Min({a, b})
  OBVIOUS
<1>2. \E x \in {a, b} : \A y \in {a, b} : x <= y
  OBVIOUS
<1>3. m \in {a, b} /\ \A y \in {a, b} : m <= y
  BY <1>1, <1>2 DEF Min
<1>. QED
  BY <1>1, <1>3

(* Both callers plan for the collection of the row they were given.         *)
LEMMA PlanMade ==
    ASSUME NEW c \in Targets, NEW sendTo, sendTo = c \/ Drop(sendTo),
           NEW row, SampleOf(c, row.sample), NEW price \in Nat, NEW freeOnly, NEW facts
    PROVE  PlanOf(Plan(c, sendTo, row, price, freeOnly, facts))
<1>1. PICK p : p = Plan(c, sendTo, row, price, freeOnly, facts)
  OBVIOUS
<1>2. MaxValue \in Nat /\ Min({price, MaxValue}) \in Nat /\ Min({price, MaxValue}) <= MaxValue
  BY FeedAssumption, Capped
<1>3. p.collection = c /\ p.sendTo = sendTo /\ p.sample = row.sample
      /\ p.value = (IF freeOnly THEN 0 ELSE Min({price, MaxValue}))
  BY <1>1, Zenon DEF Plan
<1>4. p.value \in Nat /\ p.value <= MaxValue
  BY <1>2, <1>3
<1>. QED
  BY <1>1, <1>3, <1>4 DEF PlanOf

(* A press plans with a cached row, a hunt with one of its snapshot.        *)
LEMMA PressPlans ==
    ASSUME SeenInv, NEW c \in Targets, Press(c) \/ Qualify(c)
    PROVE  PlanOf(plan')
<1>1. CASE Press(c)
  <2>1. PICK r : r = cache[c]
    OBVIOUS
  <2>2. CachedOf(c, r)
    BY <1>1, <2>1 DEF Press, recallLiveMint, SeenInv
  <2>3. PICK facts, sendTo : plan' = Plan(c, sendTo, r, r.price, r.price = 0, facts)
                            /\ sendTo = (IF r.mintVia = NoVia THEN c ELSE r.mintVia)
    BY <1>1, <2>1, Zenon DEF Press, recallLiveMint
  <2>4. sendTo = c \/ Drop(sendTo)
    BY <2>2, <2>3 DEF CachedOf
  <2>. QED
    BY <2>2, <2>3, <2>4, PlanMade DEF CachedOf
<1>2. CASE Qualify(c)
  <2>1. PICK r : r = collectSnapshot[c]
    OBVIOUS
  <2>2. r # NoRow /\ r.sample # NoSample
    BY <1>2, <2>1, Zenon DEF Qualify
  <2>3. PICK facts, freeOnly : plan' = Plan(c, c, r, r.value, freeOnly, facts)
    BY <1>2, <2>1, Zenon DEF Qualify
  <2>4. RowOf(c, r)
    BY <2>1, <2>2, CollectedKnows
  <2>. QED
    BY <2>2, <2>3, <2>4, PlanMade DEF RowOf
<1>. QED
  BY <1>1, <1>2

(* What mintCandidate sends is what was planned.                            *)
LEMMA CallsArePlanned ==
    ASSUME DropContractsApart, PlanInv, mintCandidate
    PROVE  PlanInv'
<1>1. plan # NoPlan /\ PlanOf(plan)
  BY DEF PlanInv, mintCandidate
<1>2. PICK p : p = plan
  OBVIOUS
<1>3. PICK refused \in SUBSET (Wallets \cup {plan.sample.from}), funded \in SUBSET Wallets :
        /\ \A call \in sent' : \E way \in Ways(p), w \in funded :
              /\ call = CallOf(p, way, w)
              /\ Works(CallOf(p, way, First), refused)
              /\ \A other \in Ways(p) : other.rank < way.rank => ~Works(CallOf(p, other, First), refused)
        /\ sent' = {} => plan' = NoPlan
        /\ sent' # {} => plan' = plan /\ full' = refused
  <2>1. PICK refused \in SUBSET (Wallets \cup {plan.sample.from}), funded \in SUBSET Wallets :
          /\ sent' = Prepared(plan, FirstPassing(plan, refused), funded)
          /\ full' = IF sent' = {} THEN {} ELSE refused
          /\ plan' = IF sent' = {} THEN NoPlan ELSE plan
    BY Zenon DEF mintCandidate
  <2>2. PICK chosen : chosen = FirstPassing(p, refused)
    OBVIOUS
  <2>3. \A way \in chosen :
          /\ way \in Ways(p) /\ Works(CallOf(p, way, First), refused)
          /\ \A other \in Ways(p) : other.rank < way.rank => ~Works(CallOf(p, other, First), refused)
    BY <2>2, Zenon DEF FirstPassing
  <2>4. \A call \in sent' : \E way \in Ways(p), w \in funded :
          /\ call = CallOf(p, way, w)
          /\ Works(CallOf(p, way, First), refused)
          /\ \A other \in Ways(p) : other.rank < way.rank => ~Works(CallOf(p, other, First), refused)
    <3>1. sent' = {CallOf(p, way, w) : way \in chosen, w \in funded}
      BY <1>2, <2>1, <2>2 DEF Prepared
    <3>2. \A call \in sent' : \E way \in chosen, w \in funded : call = CallOf(p, way, w)
      BY <3>1
    <3>. QED
      BY <2>3, <3>2, Zenon
  <2>5. (sent' = {} => plan' = NoPlan) /\ (sent' # {} => plan' = plan /\ full' = refused)
    BY <2>1, Zenon
  <2>. QED
    BY <2>4, <2>5, Zenon
<1>4. PlanOf(p)
  BY <1>1, <1>2
<1>5. ASSUME NEW call \in sent'
      PROVE  /\ Mints(call) = p.collection /\ call.value <= MaxValue
             /\ OwnMint(p.sample) /\ First \notin refused => Recipient(call) = call.from
  <2>1. PICK way \in Ways(p), w \in Wallets :
              /\ call = CallOf(p, way, w)
              /\ Works(CallOf(p, way, First), refused)
              /\ \A other \in Ways(p) : other.rank < way.rank => ~Works(CallOf(p, other, First), refused)
    BY <1>3
  <2>2. Mints(call) = p.collection
    BY <1>4, <2>1, MintsWhatWasChosen
  <2>3. call.from = w /\ call.value = p.value
    BY <2>1 DEF CallOf
  <2>4. OwnMint(p.sample) /\ First \notin refused => Recipient(call) = w
    BY <1>4, <2>1, MintsToItsSender
  <2>. QED
    BY <1>4, <2>2, <2>3, <2>4 DEF PlanOf
<1>6. CASE sent' = {}
  BY <1>3, <1>6 DEF PlanInv, SendsWhatWasSeen
<1>7. CASE sent' # {}
  <2>1. plan' = p /\ full' = refused /\ plan' # NoPlan
    BY <1>1, <1>2, <1>3, <1>7
  <2>. QED
    BY <1>4, <1>5, <2>1 DEF PlanInv, SendsWhatWasSeen
<1>. QED
  BY <1>6, <1>7

(* A plan is made while nothing is sent, and what is sent stays planned.    *)
LEMMA PlanStep ==
    ASSUME DropContractsApart, SeenInv, PlanInv, [MintNowNext]_mintNowVars
    PROVE  PlanInv'
<1>1. CASE UNCHANGED mintVars
  BY <1>1 DEF PlanInv, SendsWhatWasSeen, mintVars
<1>2. ASSUME NEW c \in Targets, Press(c) \/ Qualify(c) PROVE PlanInv'
  <2>1. PlanOf(plan')
    BY <1>2, PressPlans
  <2>2. sent = {} /\ sent' = {}
    BY <1>2, Zenon DEF PlanInv, Press, Qualify
  <2>. QED
    BY <2>1, <2>2 DEF PlanInv, SendsWhatWasSeen
<1>3. CASE mintCandidate
  BY <1>3, CallsArePlanned
<1>4. CASE Report
  BY <1>4 DEF Report, PlanInv, SendsWhatWasSeen
<1>. QED
  BY <1>1, <1>2, <1>3, <1>4 DEF MintNowNext, mintNowVars

(* Whatever the feed, the cache's age and the reads that fail: every call   *)
(* sent mints the collection that was chosen, within the ceiling, and to    *)
(* the wallet that sends it where the sample did and wallets[0] may mint    *)
(* (mintcall.ts: "Let the chain decide").  It takes that a drop contract of *)
(* the feed mints nothing of its own: the cache's mintVia is the last drop  *)
(* contract seen, which need not be that of the sample.                     *)
THEOREM WhatIsSentWasSeen == ASSUME DropContractsApart PROVE MintNowSpec => []SendsWhatWasSeen
<1>1. SeenInv /\ PlanInv /\ [MintNowNext]_mintNowVars => SeenInv' /\ PlanInv'
  BY SeenStep, PlanStep
<1>2. PlanInv => SendsWhatWasSeen
  BY DEF PlanInv
<1>. QED
  BY <1>1, <1>2, SeenStart, PTL DEF MintNowSpec
============================================================================
