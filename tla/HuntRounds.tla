----------------------------- MODULE HuntRounds -----------------------------
(***************************************************************************)
(* Rounds of the hunt: runAndRespond (src/routes/hunt.ts) takes the         *)
(* single-flight lock of src/ratelimit.ts and runs runHuntCycle             *)
(* (src/hunt.ts): sample the feed, inspect the shortlist one collection     *)
(* after another, buy what passes, up to HUNT_MAX_MINTS_PER_CYCLE, and put  *)
(* the outcome of each collection into the account's history.  What one     *)
(* mintCandidate does inside is MintBatch, what one put does inside is      *)
(* FindingStore; here they are steps of a round that may also throw.  The    *)
(* history has other writers: DELETE /api/findings empties it, and a price   *)
(* look-up (src/routes/findings.ts) writes back the row it had listed.       *)
(***************************************************************************)
EXTENDS Integers, FiniteSets

CONSTANTS
    Requests,          \* calls of POST /api/hunt, from browsers and from cron
    Accounts,          \* whose wallets and whose history a round uses
    Collections,
    NoCollection,
    InspectTop,        \* inspectTop
    MaxMintsPerCycle,  \* maxMintsPerCycle
    MaxRounds,         \* bound of the model: rounds started
    MaxLookUps         \* bound of the model: price look-ups under way at once

ASSUME HuntRoundsAssumption ==
    /\ NoCollection \notin Collections /\ IsFiniteSet(Collections)
    /\ InspectTop \in Nat /\ MaxMintsPerCycle \in Nat /\ MaxRounds \in Nat
    /\ MaxLookUps \in Nat

VARIABLES
    lock,      \* locks.has('hunt')
    round,     \* the locals of each request
    history,   \* per account, the findings store
    lookUps,   \* rows whose floor is being asked for, as they were listed
    rounds     \* rounds started

vars == <<lock, round, history, lookUps, rounds>>

(* What became of a collection in a round: never looked at, scored below 70, *)
(* scored close, or passed and then left alone because of the cap, refused   *)
(* before anything was sent (balances, simulation, practice mode), sent      *)
(* without a confirmation, or bought.                                        *)
Scored == {"poor", "close"}
Sent == {"missed", "bought"}
Passed == {"capped", "refused"} \cup Sent
Outcomes == {"unseen"} \cup Scored \cup Passed

Steps == {"idle", "sample", "inspect", "billing", "mint", "record"}
Rows == [passed : BOOLEAN, minted : {"no row", "unset", "zero", "some"}]
NoRow == [passed |-> FALSE, minted |-> "no row"]
LookUps == [who : Accounts, contract : Collections, row : Rows]

NewRound(a) ==
    [step |-> "idle", who |-> a, todo |-> {}, now |-> NoCollection,
     found |-> [c \in Collections |-> "unseen"], count |-> 0,
     unsaved |-> {}, lost |-> {}]

RoundTypes ==
    [step : Steps, who : Accounts,
     todo : SUBSET Collections,               \* the rest of the shortlist
     now : Collections \cup {NoCollection},   \* the collection of this turn of the loop
     found : [Collections -> Outcomes],       \* candidates
     count : Nat,                             \* mintedCollections
     unsaved : SUBSET Collections,            \* puts of Promise.all still running
     lost : SUBSET Collections]               \* history: puts the store failed, or undone since

(* The shape of a round: one turn of the loop at a time, the counter counts  *)
(* what was sent, and nothing is put before the loop is over.                *)
TypeOK ==
    /\ lock \in BOOLEAN
    /\ round \in [Requests -> RoundTypes]
    /\ history \in [Accounts -> [Collections -> Rows]]
    /\ lookUps \subseteq LookUps
    /\ rounds \in Nat
    /\ \A r \in Requests :
          /\ round[r].step \in {"billing", "mint"} <=> round[r].now # NoCollection
          /\ round[r].count = Cardinality({c \in Collections : round[r].found[c] \in Sent})
          /\ round[r].unsaved # {} => round[r].step = "record" /\ round[r].todo = {}

Init ==
    /\ lock = FALSE
    /\ round \in [Requests -> {NewRound(a) : a \in Accounts}]
    /\ history = [a \in Accounts |-> [c \in Collections |-> NoRow]]
    /\ lookUps = {}
    /\ rounds = 0

Set(r, rec) == round' = [round EXCEPT ![r] = rec]

----------------------------------------------------------------------------
(* Mutated forms the checks substitute. *)

CountConfirmed(outcome) == outcome = "bought"
CountAnswered(outcome) == TRUE
OnlyBought(found) == {c \in Collections : found[c] \in {"close", "bought"}}
StayLocked == UNCHANGED lock

----------------------------------------------------------------------------
(* withSingleFlight: refused when the name is taken, and given back in its   *)
(* finally whether the round answered or threw.                              *)
LockFree == ~lock
Unlock == lock' = FALSE

(* A request of either entry path.  The one that finds the lock taken is     *)
(* answered "skipped" at once, which changes nothing and is no step here.    *)
Request(r, a) ==
    /\ round[r].step = "idle"
    /\ LockFree
    /\ rounds < MaxRounds
    /\ lock' = TRUE
    /\ rounds' = rounds + 1
    /\ Set(r, [NewRound(a) EXCEPT !.step = "sample"])
    /\ UNCHANGED <<history, lookUps>>

(* runHuntCycle throws: the tracker does not answer, the wallets are not     *)
(* configured, the settings cannot be read, a nonce cannot be primed, a      *)
(* transaction cannot be signed.  The locals are gone.                       *)
Throw(r) ==
    /\ round[r].step \in {"sample", "billing", "mint"}
    /\ Set(r, NewRound(round[r].who))
    /\ Unlock
    /\ UNCHANGED <<history, lookUps, rounds>>

(* collectSnapshot, couldQualify and slice(0, inspectTop): which collections *)
(* survive, and in which order, is up to the feed.                           *)
Sample(r) ==
    /\ round[r].step = "sample"
    /\ \E list \in SUBSET Collections :
          /\ Cardinality(list) <= InspectTop
          /\ Set(r, [round[r] EXCEPT !.step = "inspect", !.todo = list])
    /\ UNCHANGED <<lock, history, lookUps, rounds>>

AtCap(r) == round[r].count >= MaxMintsPerCycle

(* One turn of the loop up to its await of loadBilling: inspectContract may  *)
(* fail without consequence, evaluate decides.                               *)
Inspect(r) ==
    /\ round[r].step = "inspect"
    /\ \E c \in round[r].todo :
          LET rest == [round[r] EXCEPT !.todo = @ \ {c}]
          IN  \/ \E o \in Scored : Set(r, [rest EXCEPT !.found[c] = o])
              \/ AtCap(r) /\ Set(r, [rest EXCEPT !.found[c] = "capped"])
              \/ ~AtCap(r) /\ Set(r, [rest EXCEPT !.step = "billing", !.now = c])
    /\ UNCHANGED <<lock, history, lookUps, rounds>>

LoadBilling(r) ==
    /\ round[r].step = "billing"
    /\ Set(r, [round[r] EXCEPT !.step = "mint"])
    /\ UNCHANGED <<lock, history, lookUps, rounds>>

(* if (!candidate.minted.error) mintedCollections += 1: whatever was sent     *)
(* counts, confirmed or not.                                                 *)
Counts(outcome) == outcome \in Sent

(* mintCandidate answers.                                                    *)
Mint(r) ==
    /\ round[r].step = "mint"
    /\ \E outcome \in {"refused"} \cup Sent :
          Set(r, [round[r] EXCEPT !.step = "inspect", !.now = NoCollection,
                                  !.found[round[r].now] = outcome,
                                  !.count = IF Counts(outcome) THEN @ + 1 ELSE @])
    /\ UNCHANGED <<lock, history, lookUps, rounds>>

(* worthKeeping: passers and near misses, put together by Promise.all.        *)
WorthKeeping(found) == {c \in Collections : found[c] \in {"close"} \cup Passed}

LoopEnds(r) ==
    /\ round[r].step = "inspect" /\ round[r].todo = {}
    /\ Set(r, [round[r] EXCEPT !.step = "record", !.unsaved = WorthKeeping(round[r].found)])
    /\ UNCHANGED <<lock, history, lookUps, rounds>>

(* toFinding and mergeFinding: `minted` is confirmed wherever an attempt was  *)
(* made or forgone, and a row without one keeps what it had.                 *)
Merged(old, outcome) ==
    [passed |-> old.passed \/ outcome \in Passed,
     minted |-> IF outcome = "bought" THEN "some"
                ELSE IF outcome \in Passed THEN "zero"
                ELSE IF old = NoRow THEN "unset" ELSE old.minted]

(* recordFinding: never disrupts the caller.  A put that fails may have       *)
(* reached the store all the same; on the file driver its read may have met   *)
(* the file while another put was writing it, and found no row.              *)
Record(r) ==
    /\ round[r].step = "record"
    /\ \E c \in round[r].unsaved, fails \in BOOLEAN :
          /\ Set(r, [round[r] EXCEPT !.unsaved = @ \ {c},
                                    !.lost = IF fails THEN @ \cup {c} ELSE @])
          /\ \/ \E old \in {history[round[r].who][c], NoRow} :
                   history' = [history EXCEPT ![round[r].who][c] = Merged(old, round[r].found[c])]
             \/ fails /\ UNCHANGED history
    /\ UNCHANGED <<lock, lookUps, rounds>>

(* The report; the page may start the next round.                             *)
Answer(r) ==
    /\ round[r].step = "record" /\ round[r].unsaved = {}
    /\ Set(r, NewRound(round[r].who))
    /\ Unlock
    /\ UNCHANGED <<history, lookUps, rounds>>

Step(r) ==
    \/ Throw(r) \/ Sample(r) \/ Inspect(r) \/ LoadBilling(r) \/ Mint(r)
    \/ LoopEnds(r) \/ Record(r) \/ Answer(r)

----------------------------------------------------------------------------
(* The other writers of the history.  What the round of this account has put  *)
(* already is undone by them.                                                *)
Undoes(a, gone) ==
    round' = [r \in Requests |->
                 IF round[r].step = "record" /\ round[r].who = a
                 THEN [round[r] EXCEPT !.lost = @ \cup (gone \ round[r].unsaved)]
                 ELSE round[r]]

(* DELETE /api/findings.  A put or a look-up of the file driver does the same  *)
(* to every row but its own when its read or its write fails (KvFile).        *)
Clear(a) ==
    /\ \E c \in Collections : history[a][c] # NoRow
    /\ history' = [history EXCEPT ![a] = [c \in Collections |-> NoRow]]
    /\ Undoes(a, Collections)
    /\ UNCHANGED <<lock, lookUps, rounds>>

(* priceMissedMints lists the rows and asks the marketplace for the floor of   *)
(* one that was not bought.                                                  *)
List(a, c) ==
    /\ history[a][c] # NoRow /\ history[a][c].minted # "some"
    /\ Cardinality(lookUps) < MaxLookUps
    /\ lookUps' = lookUps \cup {[who |-> a, contract |-> c, row |-> history[a][c]]}
    /\ UNCHANGED <<lock, round, history, rounds>>

(* The floor is known: the row goes back as it was listed.  Without a floor,   *)
(* or when the write fails, nothing changes.                                 *)
Update(l) ==
    /\ l \in lookUps
    /\ lookUps' = lookUps \ {l}
    /\ \/ /\ history' = [history EXCEPT ![l.who][l.contract] = l.row]
          /\ Undoes(l.who, IF history[l.who][l.contract] = l.row THEN {} ELSE {l.contract})
       \/ UNCHANGED <<history, round>>
    /\ UNCHANGED <<lock, rounds>>

Next ==
    \/ \E r \in Requests : Step(r) \/ \E a \in Accounts : Request(r, a)
    \/ \E a \in Accounts : Clear(a) \/ \E c \in Collections : List(a, c)
    \/ \E l \in lookUps : Update(l)

Spec == Init /\ [][Next]_vars

(* Every await of a round has its own deadline: the sampling window, the     *)
(* 5 s of a store command, the time-outs of RpcClient, the 30 s of the       *)
(* receipts.  A round under way therefore keeps moving, as long as no answer *)
(* is broken off after its headers (BrokenOff of BotRun).                    *)
FairSpec == Spec /\ \A r \in Requests : WF_vars(Step(r))

----------------------------------------------------------------------------
(* Properties. *)

Active(r) == round[r].step # "idle"

(* Two rounds never overlap, also after a round that threw, so they never    *)
(* prime nonces of the same wallets at the same time (routes/hunt.ts:157).   *)
OneRound ==
    /\ \A r, s \in Requests : Active(r) /\ Active(s) => r = s
    /\ lock <=> \E r \in Requests : Active(r)

(* A round sends transactions for at most MaxMintsPerCycle collections,       *)
(* whether or not they are confirmed in time (hunt.ts:257).                  *)
CapHeld ==
    \A r \in Requests :
        Cardinality({c \in Collections : round[r].found[c] \in Sent}) <= MaxMintsPerCycle

(* A round that answers leaves in its own account's history, for every        *)
(* collection it sent transactions for, the outcome it ended with (hunt.ts:   *)
(* 293), unless the store failed the put, or the history was emptied or a     *)
(* price look-up wrote an older version of the row back after the put.        *)
Remembers(r) ==
    \A c \in Collections \ round[r].lost :
        round[r].found[c] \in Sent =>
            /\ history[round[r].who][c].passed
            /\ history[round[r].who][c].minted = IF round[r].found[c] = "bought" THEN "some" ELSE "zero"

SentIsRemembered == [][\A r \in Requests : Answer(r) => Remembers(r)]_vars

(* Whatever a round meets - a tracker that is down, a store that fails, a     *)
(* throw in the middle of a purchase - the lock is given back (ratelimit.ts:  *)
(* 149), so the next request is not skipped for ever.                        *)
AlwaysUnlocked == lock ~> ~lock
============================================================================
