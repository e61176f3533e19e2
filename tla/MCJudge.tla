------------------------------- MODULE MCJudge -------------------------------
(* Rows at, above and below every threshold, of a deployment whose own limit *)
(* of the age is beyond its dial; ten kinds of contract, among them a token, *)
(* a router, a collection without ERC-165 and one sold out.                 *)
EXTENDS Judge, TLC

MCDials == "minMintsPerMinute" :> [min |-> 0, max |-> 100]
        @@ "minUniqueMinters" :> [min |-> 0, max |-> 100]
        @@ "minAttemptsInWindow" :> [min |-> 0, max |-> 100]
        @@ "maxAgeSec" :> [min |-> 5, max |-> 86400]
        @@ "maxSelloutSec" :> [min |-> 10, max |-> 86400]
        @@ "maxSupplyProgress" :> [min |-> 0, max |-> 10000]

MCServer == [minMintsPerMinute |-> 30, minUniqueMinters |-> 8, minAttemptsInWindow |-> 15,
             maxAgeSec |-> 90000, requireLive |-> TRUE, maxSelloutSec |-> 900,
             maxSupplyProgress |-> 9000, freeOnly |-> TRUE, maxPrice |-> 2,
             requireSaleOpen |-> TRUE, skipIfOwned |-> TRUE]

MCAsked == { <<>>,
             "freeOnly" :> FALSE,
             "freeOnly" :> FALSE @@ "maxPrice" :> 5 @@ "maxAgeSec" :> 1,
             "requireLive" :> FALSE @@ "minMintsPerMinute" :> -3,
             "requireSaleOpen" :> FALSE @@ "skipIfOwned" :> FALSE @@ "maxSupplyProgress" :> 99999 }

MCSampled ==
    { [attemptsPerMinute |-> rate, uniqueMinters |-> minters, attemptsInWindow |-> window,
       ageSec |-> age, status |-> status, isFree |-> free, observedValue |-> value] :
        rate \in {0, 29, 30}, minters \in {7, 8}, window \in {14, 15}, age \in {5, 90000, 90001},
        status \in {"live", "slowing", "ended"}, free \in BOOLEAN, value \in {0, 2, 5} }

Plain == "code" :> TRUE @@ "name" :> TRUE @@ "totalSupply" :> 400
Capped == Plain @@ "maxSupply" :> 1000 @@ "saleIsActive" :> TRUE @@ "balanceOf" :> 0
Nft == "ERC721" :> TRUE @@ "ERC1155" :> FALSE
MCContracts ==
    { Capped @@ Nft, Capped,
      Plain @@ "decimals" :> 18,
      "code" :> TRUE @@ "ERC721" :> FALSE @@ "ERC1155" :> FALSE @@ "name" :> TRUE @@ "totalSupply" :> 1,
      "code" :> TRUE,
      "name" :> TRUE,
      "totalSupply" :> 1000 @@ "totalMinted" :> 990 @@ Capped @@ Nft,
      "totalSupply" :> 950 @@ "saleIsActive" :> FALSE @@ "presaleActive" :> TRUE @@ Capped @@ Nft,
      "balanceOf" :> 1 @@ "tokenURI" :> TRUE @@ "saleStarted" :> TRUE @@ Capped,
      "totalSupply" :> 950 @@ Capped @@ Nft }
============================================================================
