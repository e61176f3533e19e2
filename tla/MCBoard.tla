------------------------------- MODULE MCBoard -------------------------------
(* A free collection with three ways to mint, one of them known to no list; *)
(* one that costs 1 and is minted through a shared drop contract or         *)
(* directly; and a token.  Every kind of sample: with and without a         *)
(* recipient, minted for somebody else, and of an unknown sender.           *)
EXTENDS MintNow, TLC

CONSTANTS free, paid, token, seadrop, feeTo, alice, bob, w1, w2

Nft == "code" :> TRUE @@ "ERC721" :> TRUE @@ "name" :> TRUE
MCAnswers ==
    free :> (Nft @@ "maxPerWallet" :> 2 @@ "totalSupply" :> 1)
    @@ paid :> (Nft @@ "price" :> 1)
    @@ token :> ("code" :> TRUE @@ "decimals" :> 18 @@ "name" :> TRUE @@ "totalSupply" :> 1)
    @@ seadrop :> ("code" :> TRUE)

MCSignatures == "mint(uint256)" :> <<"uint256">> @@ "mint(address)" :> <<"address">>

MCRuns ==
    free :> ("mint(uint256)" :> <<"quantity">> @@ "mint(address)" :> <<"recipient">>
             @@ "drop(address,uint256)" :> <<"recipient", "quantity">>)
    @@ paid :> ("mint(uint256)" :> <<"quantity">>)
    @@ seadrop :> ("mintPublic" :> <<"collection", "fee", "recipient", "quantity">>)

Tx(to, fn, words, from, value) ==
    [to |-> to, fn |-> fn, words |-> words, from |-> from, value |-> value]
MCFeed ==
    { Tx(free, "mint(uint256)", <<1>>, alice, 0),
      Tx(free, "mint(address)", <<alice>>, alice, 0),
      Tx(free, "mint(address)", <<bob>>, alice, 0),
      Tx(free, "drop(address,uint256)", <<alice, 1>>, alice, 0),
      Tx(free, "drop(address,uint256)", <<bob, 1>>, NoSender, 0),
      Tx(paid, "mint(uint256)", <<1>>, bob, 1),
      Tx(seadrop, "mintPublic", <<paid, feeTo, alice, 1>>, alice, 1),
      Tx(token, "mint(address)", <<bob>>, bob, 0),
      Tx(token, "transfer", <<bob, 1>>, alice, 0) }

ASSUME DropContractsApart

(* Bound: while a call is made nobody holds the feed open (making it reads   *)
(* nothing of the tracker or the cache).                                    *)
Alone == plan # NoPlan => ~listening
============================================================================
