------------------------------- MODULE Inspect -------------------------------
(***************************************************************************)
(* inspectContract of src/inspect.ts: what is known of a contract after it  *)
(* was asked.  A contract is a function from the reads it implements to     *)
(* their answers; the reads in "unread" failed in transport, which the code *)
(* cannot tell from a function that does not exist.                         *)
(***************************************************************************)
EXTENDS Integers, Sequences

CONSTANTS
    NoAnswer,             \* undefined
    NoInfo                \* inspectContract threw: nothing is known

(* Getters in the order they are trusted; two of each list stand for all.   *)
SUPPLY_FNS == <<"totalSupply", "totalMinted">>
MAX_SUPPLY_FNS == <<"maxSupply", "MAX_SUPPLY">>
PRICE_FNS == <<"price", "mintPrice">>
SALE_OPEN_FNS == <<"saleIsActive", "saleStarted">>
ALLOWLIST_OPEN_FNS == <<"presaleActive">>
PER_WALLET_FNS == <<"maxPerWallet", "maxPerTx">>
URI_FNS == <<"tokenURI", "uri">>

Known(answer) == answer # NoAnswer

(* Transport failures, reverts and functions that are missing look alike.   *)
probe(contract, unread, fn) ==
    IF fn \in DOMAIN contract /\ fn \notin unread THEN contract[fn] ELSE NoAnswer

probeFirst(contract, unread, fns) ==
    LET answered == {i \in DOMAIN fns : Known(probe(contract, unread, fns[i]))}
        first == CHOOSE i \in answered : \A j \in answered : i <= j
    IN  IF answered = {} THEN NoAnswer ELSE contract[fns[first]]

(* ERC-165 is asked twice; one "no" and one failure make a "no".            *)
supportsNftInterface(contract, unread) ==
    LET answers == {probe(contract, unread, "ERC721"), probe(contract, unread, "ERC1155")}
    IN  IF answers = {NoAnswer} THEN NoAnswer ELSE TRUE \in answers

balanceOf(contract, unread) == probe(contract, unread, "balanceOf")

Supply(total, max) ==
    IF Known(total) /\ Known(max) /\ max > 0
    THEN [progress |-> (total * 10000) \div max,     \* hundredths of a percent
          remaining |-> IF max > total THEN max - total ELSE 0,
          soldOut |-> total >= max]
    ELSE [progress |-> NoAnswer, remaining |-> NoAnswer, soldOut |-> FALSE]

Round(sale, presale) ==
    IF sale = TRUE THEN "public" ELSE IF presale = TRUE THEN "allowlist"
    ELSE IF Known(sale) \/ Known(presale) THEN "closed" ELSE "unknown"

inspectContract(contract, unread) ==
    LET Ask(fns) == probeFirst(contract, unread, fns)
        total == Ask(SUPPLY_FNS)
        max == Ask(MAX_SUPPLY_FNS)
        nft == supportsNftInterface(contract, unread)
        fungible == Known(probe(contract, unread, "decimals"))
        named == Known(probe(contract, unread, "name"))
        perWallet == Ask(PER_WALLET_FNS)
    IN  IF "code" \in unread THEN NoInfo
        ELSE IF "code" \notin DOMAIN contract
        THEN [isNft |-> NoAnswer, looksLikeNft |-> FALSE, supply |-> Supply(NoAnswer, NoAnswer),
              price |-> NoAnswer,
              saleOpen |-> NoAnswer, phase |-> "unknown", maxPerWallet |-> NoAnswer, owned |-> NoAnswer]
        ELSE [isNft |-> IF Known(nft) THEN nft ELSE IF fungible THEN FALSE ELSE NoAnswer,
              looksLikeNft |-> /\ ~fungible
                               /\ \/ Known(Ask(URI_FNS))
                                  \/ named /\ (Known(total) \/ Known(max)),
              supply |-> Supply(total, max),
              price |-> Ask(PRICE_FNS),
              saleOpen |-> Ask(SALE_OPEN_FNS),
              phase |-> Round(Ask(SALE_OPEN_FNS), Ask(ALLOWLIST_OPEN_FNS)),
              maxPerWallet |-> IF Known(perWallet) /\ perWallet > 0 THEN perWallet ELSE NoAnswer,
              owned |-> balanceOf(contract, unread)]
============================================================================
