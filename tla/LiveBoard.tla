------------------------------ MODULE LiveBoard ------------------------------
(***************************************************************************)
(* From the feed to a row that can be minted: the tracker's rows            *)
(* (src/tracker.ts), the snapshot of them, from a tracker that listens all  *)
(* the time or by listening for the length of a request (src/snapshot.ts),  *)
(* the board of GET /api/live (src/live.ts, src/routes/live.ts), and the    *)
(* rows it leaves in the cache (src/liveCache.ts).                          *)
(***************************************************************************)
EXTENDS Inspect, MintCall

CONSTANTS
    Targets,              \* the contracts that are called
    Answers,              \* what each of them answers to reads
    Feed,                 \* the transactions that may come: [to, fn, words, from, value]
    Setups, Drivers,      \* "feed", "upstream", "fallback"; "redis", "file"
    PromoteAfter, PromoteOnBoard,
    MinMints, InspectTop, \* what the board asks for
    TTL, DefaultTTL,      \* ticks a namespace of redis lives: the cache's, and any other's
    NoSample, NoRow, Never,
    MaxSeen               \* bound: mints a tracker sees

(* A cache lives for a while, and no number stands for one that does not expire. *)
ASSUME LifeAssumption == TTL \in Nat \ {0} /\ Never \notin Int

VARIABLES
    setup, driver,
    served,      \* the tracker of `nftmint serve`
    sampled,     \* the tracker of the request that holds the feed open
    listening,   \* there is such a request
    cache,       \* the rows behind the Mint buttons
    left,        \* ticks until redis drops the cache
    quiet        \* ticks since a board last put a row there, up to TTL

trackerVars == <<served, sampled, listening>>
cacheVars == <<cache, left, quiet>>
boardVars == <<setup, driver, trackerVars, cacheVars>>

NoVia == NoTarget
NoStats == [calls |-> <<>>, value |-> 0, samples |-> <<>>, promoted |-> FALSE, mintVia |-> NoVia]
Unheard == [c \in Targets |-> NoStats]
NoRows == [c \in Targets |-> NoRow]

BoardInit ==
    /\ setup \in Setups /\ driver \in Drivers
    /\ served = Unheard /\ sampled = Unheard /\ listening = FALSE
    /\ cache = NoRows /\ left = Never /\ quiet = Never

----------------------------------------------------------------------------
(* Mutated forms the checks substitute: each is a slip this code could have. *)

DefaultLifetime == DefaultTTL

----------------------------------------------------------------------------
(* tracker.ts: ingest, and the row of a collection in snapshot.             *)

Counted(stats, tx, promoteAfter) ==
    [stats EXCEPT !.calls = Append(stats.calls, tx.fn),
                  !.value = stats.value + tx.value,
                  !.mintVia = IF tx.fn \in ProxyFns THEN tx.to ELSE stats.mintVia,
                  !.promoted = \/ stats.promoted \/ (stats.calls = <<>> /\ classifyMint(tx).known)
                               \/ Len(stats.calls) + 1 >= promoteAfter]

WithSample(stats, tx) ==
    IF stats.promoted /\ tx.fn \notin DOMAIN stats.samples
    THEN [stats EXCEPT !.samples = [fn \in DOMAIN stats.samples \cup {tx.fn} |->
                                       IF fn = tx.fn THEN tx ELSE stats.samples[fn]]]
    ELSE stats

ingest(tracker, tx, promoteAfter) ==
    LET target == mintTarget(tx) IN
    IF ~classifyMint(tx).isMint \/ target \notin Targets THEN tracker
    ELSE [tracker EXCEPT ![target] = WithSample(Counted(@, tx, promoteAfter), tx)]

(* The function called most, the first of them in the order of sighting.    *)
Times(calls, fn) == Cardinality({i \in DOMAIN calls : calls[i] = fn})
topSelector(calls) ==
    CHOOSE fn \in ToSet(calls) :
        \A other \in ToSet(calls) \ {fn} :
            \/ Times(calls, fn) > Times(calls, other)
            \/ /\ Times(calls, fn) = Times(calls, other)
               /\ SelectInSeq(calls, LAMBDA f : f = fn) < SelectInSeq(calls, LAMBDA f : f = other)

TrackedRow(stats) ==
    LET top == topSelector(stats.calls) IN
    [attempts |-> Len(stats.calls),
     value |-> stats.value \div Len(stats.calls),
     sample |-> IF top \in DOMAIN stats.samples THEN stats.samples[top] ELSE NoSample,
     mintVia |-> stats.mintVia]

snapshot(tracker) ==
    [c \in Targets |-> IF tracker[c].promoted THEN TrackedRow(tracker[c]) ELSE NoRow]

----------------------------------------------------------------------------
(* snapshot.ts: a request is answered by the tracker upstream, or by        *)
(* listening here for a while where there is none, or where it failed and   *)
(* the deployment allows that.                                              *)

Room(tracker) == MapThenSumSet(LAMBDA c : Len(tracker[c].calls), Targets) < MaxSeen

FeedTx(tx) ==
    /\ setup # "feed" \/ listening
    /\ Room(served) /\ Room(sampled)
    /\ served' = IF setup = "feed" THEN served ELSE ingest(served, tx, PromoteAfter)
    /\ sampled' = IF listening THEN ingest(sampled, tx, PromoteOnBoard) ELSE sampled
    /\ UNCHANGED <<setup, driver, listening, cacheVars>>

Listen ==
    /\ ~listening /\ setup # "upstream"
    /\ listening' = TRUE
    /\ UNCHANGED <<setup, driver, served, sampled, cacheVars>>

collectSnapshot == IF listening THEN snapshot(sampled) ELSE snapshot(served)

(* The request that asked is over. *)
Answered ==
    /\ listening \/ setup # "feed"
    /\ listening' = FALSE /\ sampled' = Unheard
    /\ UNCHANGED <<setup, driver, served>>

----------------------------------------------------------------------------
(* live.ts and liveCache.ts *)

kind(info) ==
    IF info = NoInfo THEN "unverified"
    ELSE IF info.isNft = TRUE THEN "confirmed"
    ELSE IF info.looksLikeNft THEN "likely" ELSE "unverified"

(* The contract's own price before what the feed saw people pay.            *)
toLiveMint(row, info) ==
    [sample |-> row.sample, mintVia |-> row.mintVia,
     price |-> IF Known(info.price) THEN info.price ELSE row.value]

Lifetime == TTL

(* Reads of any contract may fail, and each row reaches the cache on its    *)
(* own or not; on redis the whole cache then lives for another TTL, unless  *)
(* every EXPIRE failed.                                                     *)
runLiveBoard ==
    /\ Answered
    /\ LET rows == collectSnapshot
           listed == {c \in Targets : rows[c] # NoRow /\ rows[c].attempts >= MinMints}
       IN  \E shortlist \in kSubset(Min({InspectTop, Cardinality(listed)}), listed) :
           \E unreadable \in SUBSET shortlist :
              LET Info(c) == inspectContract(Answers[c], IF c \in unreadable THEN {"code"} ELSE {})
                  shown == {c \in shortlist : kind(Info(c)) # "unverified" /\ rows[c].sample # NoSample}
              IN  \E landed \in SUBSET shown, timed \in BOOLEAN :
                    /\ cache' = [c \in Targets |-> IF c \in landed THEN toLiveMint(rows[c], Info(c))
                                                   ELSE cache[c]]
                    /\ left' = IF landed # {} /\ timed /\ driver = "redis" THEN Lifetime ELSE left
                    /\ quiet' = IF landed # {} THEN 0 ELSE quiet

(* The request fails, or is another's that leaves the cache alone. *)
AnswerOnly == Answered /\ UNCHANGED cacheVars

Tick ==
    /\ quiet' = IF quiet \in 0..(TTL - 1) THEN quiet + 1 ELSE quiet
    /\ IF left = 1 THEN cache' = NoRows /\ left' = Never
       ELSE cache' = cache /\ left' = IF left = Never THEN Never ELSE left - 1
    /\ UNCHANGED <<setup, driver, trackerVars>>

BoardNext == (\E tx \in Feed : FeedTx(tx)) \/ Listen \/ runLiveBoard \/ AnswerOnly \/ Tick
============================================================================
