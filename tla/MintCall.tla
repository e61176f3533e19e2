------------------------------ MODULE MintCall ------------------------------
(***************************************************************************)
(* src/mintdetect.ts and src/mintcall.ts: which transactions of the feed    *)
(* are mints, and of what; and how the calldata of one becomes calldata of  *)
(* ours.  Calldata is a function and its arguments, one word each; a word   *)
(* is an address (no number) or a number.                                   *)
(***************************************************************************)
EXTENDS Integers, SequencesExt

CONSTANTS
    Signatures,           \* MINT_SIGNATURES: the input types of each function known
    NotMintFns,           \* NOT_MINT_SELECTORS
    ProxyFns,             \* PROXY_MINT_SELECTORS: the first input is the collection
    Addresses,            \* the addresses that occur in calldata
    ProbeWallet,          \* a stand-in that occurs nowhere else
    NoSender              \* the signature of a sample could not be recovered

MAX_PLAUSIBLE_QUANTITY == 10000
NoTarget == 0             \* also the zero address

----------------------------------------------------------------------------
(* mintdetect.ts *)

classifyMint(tx) ==
    [isMint |-> tx.fn \notin NotMintFns, known |-> tx.fn \in DOMAIN Signatures]

mintTarget(tx) ==
    IF tx.fn \notin ProxyFns THEN tx.to
    ELSE IF tx.words # <<>> /\ tx.words[1] \in Addresses THEN tx.words[1] ELSE NoTarget

----------------------------------------------------------------------------
(* mintcall.ts.  Positions are those of the words after the selector.       *)

findAddressWords(data, address) == {i \in DOMAIN data.words : data.words[i] = address}

Put(data, positions, word) ==
    [data EXCEPT !.words = [i \in DOMAIN data.words |->
                               IF i \in positions THEN word ELSE data.words[i]]]

(* The one word that may be a count, as a set; addresses are huge numbers.  *)
findQuantityWord(data) ==
    LET counts == {i \in DOMAIN data.words : data.words[i] # 0} IN
    IF /\ Len(data.words) <= 2 /\ Cardinality(counts) = 1
       /\ \A i \in counts : data.words[i] \notin Addresses /\ data.words[i] <= MAX_PLAUSIBLE_QUANTITY
    THEN counts ELSE {}

setQuantity(data, quantity) == Put(data, findQuantityWord(data), quantity)

----------------------------------------------------------------------------
(* A way to build the call: how early it is tried, the data, and the words   *)
(* that become the wallet.                                                  *)
Way(rank, data, ours) == [rank |-> rank, data |-> data, ours |-> ours]
buildFor(way, wallet) == Put(way.data, way.ours, wallet)

AddressInputs(types) == {i \in DOMAIN types : types[i] = "address"}

Bulk(data, quantity) == Way(1, setQuantity(data, quantity), {})
Swap(data, sender) == Way(2, data, findAddressWords(data, sender))
Rebuilt(data) == Way(3, data, AddressInputs(Signatures[data.fn]))
Verbatim(data) == Way(4, data, {})

(* The payload decodes: an address input holds an address.                  *)
Decodes(data) ==
    /\ data.fn \in DOMAIN Signatures
    /\ Len(Signatures[data.fn]) = Len(data.words)
    /\ \A i \in DOMAIN data.words : Signatures[data.fn][i] = "address" => data.words[i] \in Addresses
    /\ AddressInputs(Signatures[data.fn]) # {}

OnlyIf(condition, way) == IF condition THEN {way} ELSE {}

(* Best first; a way that builds what an earlier one builds is left out.    *)
(* The bulk call names no sender: a payload with an address has no quantity.*)
Distinct(ways) ==
    {way \in ways : \A other \in ways :
        other.rank < way.rank => buildFor(other, ProbeWallet) # buildFor(way, ProbeWallet)}

buildAutoMintCalls(observed, sender, quantity) ==
    Distinct(OnlyIf(quantity \in 2..MAX_PLAUSIBLE_QUANTITY /\ findQuantityWord(observed) # {},
                    Bulk(observed, quantity))
             \cup OnlyIf(findAddressWords(observed, sender) # {}, Swap(observed, sender))
             \cup OnlyIf(Decodes(observed), Rebuilt(observed))
             \cup {Verbatim(observed)})
============================================================================
