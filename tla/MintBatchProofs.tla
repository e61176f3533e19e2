--------------------------- MODULE MintBatchProofs ---------------------------
(***************************************************************************)
(* What a purchase may report and bill, for any wallets, rounds, presses    *)
(* and collections.  Everything rests on one fact about the chain, Moves: a *)
(* ledger only grows at its end, and what was executed stays as it was.  A  *)
(* run's own part of the invariant is Good, a predicate of its locals; a    *)
(* step of another run, or of the chain, leaves it alone because of Moves   *)
(* and because what is taken beats every run that waits for the nonce.      *)
(***************************************************************************)
EXTENDS MintBatch, TLAPS

Entries == [tx : Txs, ok : BOOLEAN]

Ledgers ==
    /\ ledger \in [Wallets -> Seq(Entries)]
    /\ mined \in [Wallets -> Nat]
    /\ \A w \in Wallets : mined[w] <= Len(ledger[w])

(* How the ledgers and what is executed of them may change.                 *)
Moves ==
    \A w \in Wallets :
        /\ Len(ledger[w]) <= Len(ledger'[w]) /\ mined[w] <= mined'[w]
        /\ \A i \in 1..Len(ledger[w]) : ledger'[w][i].tx = ledger[w][i].tx
        /\ \A i \in 1..mined[w] : ledger'[w][i] = ledger[w][i]

(* A fee that may still arrive was worked out like those that have.         *)
Drift ==
    /\ adrift \in [Wallets -> SUBSET Txs]
    /\ \A w \in Wallets : \A tx \in adrift[w] : tx.kind = "fee" => Deserved(tx)

Blank == {"idle", "inspect", "prepare"}
Early == Blank \cup {"prime"}
MintOf(q) == MintTx(q.contract, q.gas)
HasNonce(q, w) == q.nonce[w] # Unprimed

(* The locals of a run between two awaits: nothing is told before anything  *)
(* was sent, nothing is sent without a nonce, and receipts are asked for    *)
(* what was accepted.                                                       *)
Shape(q) ==
    /\ q \in RunTypes
    /\ q.at \in Early => q.got = {} /\ q.confirmed = {} /\ \A w \in Wallets : q.told[w] = "none"
    /\ q.at \in Blank => \A w \in Wallets : ~HasNonce(q, w)
    /\ q.at \in {"submit", "fee", "charge"} => \A w \in q.funded : HasNonce(q, w)
    /\ q.at \in {"fee", "charge"} => q.confirmed # {}
    /\ \A w \in Wallets : q.told[w] # "none" => HasNonce(q, w)
    /\ \A w \in q.got : q.told[w] = "accepted"

(* Nonces are of the past, and never beyond the ledger.                     *)
NoGap(q) == \A w \in Wallets : q.nonce[w] <= Len(ledger[w])

(* A receipt that is in is about the run's own executed transaction.        *)
Honest(q) ==
    /\ q.confirmed \subseteq q.got
    /\ \A w \in q.got :
          /\ HasNonce(q, w) /\ q.nonce[w] + 1 <= mined[w]
          /\ ledger[w][q.nonce[w] + 1].tx = MintOf(q)
    /\ \A w \in q.confirmed : ledger[w][q.nonce[w] + 1].ok

(* A nonce is the next one until it is beaten, and what is accepted without *)
(* that is there.                                                           *)
Reached(q) ==
    \A w \in Wallets : HasNonce(q, w) =>
        /\ q.told[w] = "accepted" => q.nonce[w] < Len(ledger[w])
        /\ q.told[w] = "accepted" /\ w \notin q.beaten => Known(w, q.nonce[w], MintOf(q))
        /\ q.at \in {"prime", "submit"} /\ q.told[w] = "none" /\ w \notin q.beaten =>
              q.nonce[w] = Len(ledger[w])

Good(q) == Shape(q) /\ NoGap(q) /\ Honest(q) /\ Reached(q)

(* Two runs were told that one nonce is theirs only if one was beaten.      *)
Once ==
    \A r, s \in Runs, w \in Wallets :
        /\ r # s /\ run[r].told[w] = "accepted" /\ run[s].told[w] = "accepted"
        /\ run[r].nonce[w] = run[s].nonce[w]
        => w \in run[r].beaten \cup run[s].beaten

BatchInv ==
    /\ Ledgers /\ Drift
    /\ run \in [Runs -> RunTypes]
    /\ \A r \in Runs : Good(run[r])
    /\ Once
    /\ FeeOnlyForResult

----------------------------------------------------------------------------
(* The chain.  A transaction that is taken goes to the end of its ledger.   *)
LEMMA TakeMoves ==
    ASSUME Ledgers, NEW w \in Wallets, NEW tx \in Txs, Take(w, tx), UNCHANGED mined
    PROVE  /\ Ledgers' /\ Moves
           /\ \A v \in Wallets \ {w} : ledger'[v] = ledger[v]
           /\ Len(ledger'[w]) = Len(ledger[w]) + 1
           /\ ledger'[w][Len(ledger[w]) + 1].tx = tx
<1> DEFINE e == [tx |-> tx, ok |-> FALSE]
           l == Append(ledger[w], e)
<1>0. e \in Entries /\ e.tx = tx
  BY DEF Entries
<1>1. ledger' = [ledger EXCEPT ![w] = l] /\ ledger[w] \in Seq(Entries)
  BY DEF Take, Ledgers
<1> HIDE DEF e
<1>2. /\ l \in Seq(Entries) /\ Len(l) = Len(ledger[w]) + 1
      /\ \A i \in 1..Len(ledger[w]) : l[i] = ledger[w][i]
      /\ l[Len(ledger[w]) + 1] = e /\ Len(ledger[w]) \in Nat
  BY <1>0, <1>1
<1> HIDE DEF l
<1>3. ledger'[w] = l /\ \A v \in Wallets \ {w} : ledger'[v] = ledger[v]
  BY <1>1 DEF Ledgers
<1>4. ledger' \in [Wallets -> Seq(Entries)]
  BY <1>1, <1>2 DEF Ledgers
<1>5. \A v \in Wallets : mined[v] \in Nat /\ mined[v] <= Len(ledger[v]) /\ Len(ledger[v]) \in Nat
  BY DEF Ledgers
<1>6. Ledgers'
  <2>1. \A v \in Wallets : mined[v] <= Len(ledger'[v])
    BY <1>2, <1>3, <1>5
  <2>. QED
    BY <1>4, <2>1 DEF Ledgers
<1>7. Moves
  <2>1. \A v \in Wallets : Len(ledger[v]) <= Len(ledger'[v])
    BY <1>2, <1>3, <1>5
  <2>2. \A v \in Wallets : \A i \in 1..Len(ledger[v]) : ledger'[v][i] = ledger[v][i]
    BY <1>2, <1>3
  <2>3. \A v \in Wallets : \A i \in 1..mined[v] : i \in 1..Len(ledger[v])
    BY <1>5
  <2>. QED
    BY <1>5, <2>1, <2>2, <2>3 DEF Moves
<1>. QED
  BY <1>0, <1>2, <1>3, <1>6, <1>7

(* Executing the next transaction says how it ended, and changes no other.  *)
LEMMA MineMoves ==
    ASSUME Ledgers, NEW w \in Wallets, Mine(w)
    PROVE  /\ Ledgers' /\ Moves
           /\ \A v \in Wallets : Len(ledger'[v]) = Len(ledger[v])
<1>a. ledger[w] \in Seq(Entries) /\ mined[w] \in Nat
  BY DEF Ledgers
<1>b. mined[w] < Len(ledger[w]) /\ mined' = [mined EXCEPT ![w] = @ + 1]
  BY DEF Mine
<1>0. /\ ledger[w] \in Seq(Entries) /\ mined[w] \in Nat
      /\ Len(ledger[w]) \in Nat /\ mined[w] < Len(ledger[w])
      /\ mined' = [mined EXCEPT ![w] = @ + 1]
  BY <1>a, <1>b
<1> DEFINE n == mined[w] + 1
<1>1. PICK ok \in BOOLEAN : ledger' = [ledger EXCEPT ![w][n].ok = ok]
  BY DEF Mine
<1>2. n \in 1..Len(ledger[w])
  BY <1>0
<1> DEFINE e == [ledger[w][n] EXCEPT !.ok = ok]
           l == [ledger[w] EXCEPT ![n] = e]
<1>3. e \in Entries /\ e.tx = ledger[w][n].tx
  <2>1. ledger[w][n] \in Entries
    BY <1>0, <1>2
  <2>. QED
    BY <2>1 DEF Entries
<1>4. ledger' = [ledger EXCEPT ![w] = l]
  BY <1>1
<1> HIDE DEF e
<1>5. /\ l \in Seq(Entries) /\ Len(l) = Len(ledger[w])
      /\ \A i \in 1..Len(ledger[w]) : l[i] = IF i = n THEN e ELSE ledger[w][i]
  BY <1>0, <1>2, <1>3
<1> HIDE DEF l
<1>6. ledger'[w] = l /\ \A v \in Wallets \ {w} : ledger'[v] = ledger[v]
  BY <1>4 DEF Ledgers
<1>7. ledger' \in [Wallets -> Seq(Entries)]
  BY <1>4, <1>5 DEF Ledgers
<1>8. \A v \in Wallets : mined[v] \in Nat /\ mined[v] <= Len(ledger[v]) /\ Len(ledger[v]) \in Nat
  BY DEF Ledgers
<1>9. /\ mined' \in [Wallets -> Nat] /\ mined'[w] = n
      /\ \A v \in Wallets \ {w} : mined'[v] = mined[v]
  BY <1>0 DEF Ledgers
<1>10. Ledgers'
  <2>1. \A v \in Wallets : mined'[v] <= Len(ledger'[v])
    BY <1>0, <1>5, <1>6, <1>8, <1>9
  <2>. QED
    BY <1>7, <1>9, <2>1 DEF Ledgers
<1>11. Moves
  <2>1. \A v \in Wallets : Len(ledger[v]) <= Len(ledger'[v]) /\ mined[v] <= mined'[v]
    BY <1>0, <1>5, <1>6, <1>8, <1>9
  <2>2. \A i \in 1..Len(ledger[w]) : ledger'[w][i].tx = ledger[w][i].tx
    BY <1>3, <1>5, <1>6
  <2>3. \A i \in 1..mined[w] : ledger'[w][i] = ledger[w][i]
    BY <1>0, <1>5, <1>6
  <2>. QED
    BY <1>6, <2>1, <2>2, <2>3 DEF Moves
<1>. QED
  BY <1>5, <1>6, <1>10, <1>11

(* Nothing happens to the chain. *)
LEMMA StillMoves ==
    ASSUME Ledgers, UNCHANGED <<ledger, mined>>
    PROVE  Ledgers' /\ Moves
<1>1. \A v \in Wallets : mined[v] \in Nat /\ Len(ledger[v]) \in Nat
  BY DEF Ledgers
<1>2. ledger' = ledger /\ mined' = mined
  OBVIOUS
<1>3. Ledgers'
  BY <1>2 DEF Ledgers
<1>4. Moves
  BY <1>1, <1>2 DEF Moves
<1>. QED
  BY <1>3, <1>4

(* A fee that is deserved stays so: what was executed stays.                *)
LEMMA DeservedStays ==
    ASSUME Ledgers, Ledgers', Moves, NEW tx \in Txs, Deserved(tx)
    PROVE  Deserved(tx)'
<1>1. ASSUME NEW m \in tx.bills
      PROVE  /\ m[2] + 1 <= mined'[m[1]]
             /\ ledger'[m[1]][m[2] + 1] = ledger[m[1]][m[2] + 1]
  <2>1. m \in Wallets \X Nat
    BY DEF Txs
  <2>2. PICK w, n : w = m[1] /\ n = m[2] + 1
    OBVIOUS
  <2>3. w \in Wallets /\ n \in Nat /\ n >= 1
    BY <2>1, <2>2
  <2>4. n <= mined[w]
    BY <2>2 DEF Deserved, Executed
  <2>5. mined[w] \in Nat /\ mined'[w] \in Nat /\ mined[w] <= mined'[w]
    BY <2>3 DEF Ledgers, Moves
  <2>6. n \in 1..mined[w] /\ n <= mined'[w]
    BY <2>3, <2>4, <2>5
  <2>7. ledger'[w][n] = ledger[w][n]
    BY <2>3, <2>6 DEF Moves
  <2>. QED
    BY <2>2, <2>6, <2>7
<1>. QED
  BY <1>1 DEF Deserved, Executed

(* What is taken is deserved if it is a fee, and nothing is adrift for the  *)
(* nonce after it any more.                                                 *)
LEMMA TakeKeeps ==
    ASSUME Ledgers, Drift, FeeOnlyForResult, NEW w \in Wallets, NEW tx \in Txs, Take(w, tx),
           UNCHANGED mined, tx.kind = "fee" => Deserved(tx)
    PROVE  Drift' /\ FeeOnlyForResult'
<1>1. /\ Ledgers' /\ Moves
      /\ \A v \in Wallets \ {w} : ledger'[v] = ledger[v]
      /\ Len(ledger'[w]) = Len(ledger[w]) + 1
      /\ ledger'[w][Len(ledger[w]) + 1].tx = tx
  BY TakeMoves
<1>2. Drift'
  <2>1. adrift' = [adrift EXCEPT ![w] = {}]
    BY DEF Take
  <2>2. adrift' \in [Wallets -> SUBSET Txs] /\ \A v \in Wallets : adrift'[v] \subseteq adrift[v]
    BY <2>1 DEF Drift
  <2>3. ASSUME NEW v \in Wallets, NEW x \in adrift[v], x.kind = "fee" PROVE Deserved(x)'
    <3>1. x \in Txs /\ Deserved(x)
      BY <2>3 DEF Drift
    <3>. QED
      BY <1>1, <3>1, DeservedStays
  <2>. QED
    BY <2>2, <2>3 DEF Drift
<1>3. ASSUME NEW i \in 1..Len(ledger'[First]), NEW x, x = ledger'[First][i].tx, x.kind = "fee"
      PROVE  Deserved(x)'
  <2>0. First \in Wallets /\ ledger[First] \in Seq(Entries) /\ Len(ledger[First]) \in Nat
    BY MintBatchAssumption DEF Ledgers
  <2>1. CASE i \in 1..Len(ledger[First])
    <3>1. x = ledger[First][i].tx
      BY <1>1, <1>3, <2>0, <2>1 DEF Moves
    <3>2. ledger[First][i] \in Entries
      BY <2>0, <2>1
    <3>3. x \in Txs
      BY <3>1, <3>2 DEF Entries
    <3>4. Deserved(x)
      BY <1>3, <2>1, <3>1 DEF FeeOnlyForResult, Fees
    <3>. QED
      BY <1>1, <3>3, <3>4, DeservedStays
  <2>2. CASE i \notin 1..Len(ledger[First])
    <3>1. First = w
      BY <1>1, <2>0, <2>2
    <3>2. i = Len(ledger[w]) + 1
      BY <1>1, <2>0, <2>2, <3>1
    <3>3. x = tx
      BY <1>1, <1>3, <3>1, <3>2
    <3>. QED
      BY <1>1, <1>3, <3>3, DeservedStays
  <2>. QED
    BY <2>1, <2>2
<1>4. FeeOnlyForResult'
  BY <1>3 DEF FeeOnlyForResult, Fees
<1>. QED
  BY <1>2, <1>4

----------------------------------------------------------------------------
(* Runs.  What a step of another does to a run: it may beat it.             *)
Beside(p, q) ==
    /\ q \in RunTypes /\ p.beaten \subseteq q.beaten
    /\ q.at = p.at /\ q.contract = p.contract /\ q.gas = p.gas /\ q.funded = p.funded
    /\ q.nonce = p.nonce /\ q.told = p.told /\ q.got = p.got /\ q.confirmed = p.confirmed

(* A run stays good while the chain moves, if what is taken beats it.       *)
LEMMA GoodStays ==
    ASSUME Ledgers, Ledgers', Moves, NEW p, Good(p), NEW q, Beside(p, q),
           p.at \in {"prime", "submit"} =>
              \A w \in Wallets : HasNonce(p, w) /\ p.told[w] = "none" /\ w \notin q.beaten =>
                 Len(ledger'[w]) = Len(ledger[w])
    PROVE  Good(q)'
<1>0. \A w \in Wallets : /\ mined[w] \in Nat /\ mined'[w] \in Nat /\ mined[w] <= mined'[w]
                         /\ Len(ledger[w]) \in Nat /\ Len(ledger'[w]) \in Nat
                         /\ Len(ledger[w]) <= Len(ledger'[w]) /\ mined[w] <= Len(ledger[w])
  BY DEF Ledgers, Moves
<1>1. /\ p.confirmed \subseteq Wallets /\ p.got \subseteq Wallets
      /\ \A w \in Wallets : p.nonce[w] \in Int /\ (HasNonce(p, w) => p.nonce[w] \in Nat)
  BY DEF Good, Shape, RunTypes, HasNonce, Unprimed
<1>2. MintOf(q) = MintOf(p) /\ \A w \in Wallets : HasNonce(q, w) = HasNonce(p, w)
  BY DEF Beside, MintOf, HasNonce
<1>3. Shape(q)'
  <2>1. Shape(q)
    BY DEF Good, Shape, Beside, HasNonce
  <2>. QED
    BY <2>1 DEF Shape, HasNonce
<1>4. NoGap(q)'
  <2>1. \A w \in Wallets : p.nonce[w] <= Len(ledger[w])
    BY DEF Good, NoGap
  <2>. QED
    BY <1>0, <1>1, <2>1 DEF Beside, NoGap
<1>5. ASSUME NEW w \in p.got
      PROVE  /\ p.nonce[w] + 1 <= mined'[w]
             /\ ledger'[w][p.nonce[w] + 1] = ledger[w][p.nonce[w] + 1]
  <2>1. w \in Wallets /\ HasNonce(p, w) /\ p.nonce[w] + 1 <= mined[w]
    BY <1>1 DEF Good, Honest
  <2>2. p.nonce[w] + 1 \in 1..mined[w] /\ p.nonce[w] + 1 <= mined'[w]
    BY <1>0, <1>1, <2>1
  <2>. QED
    BY <2>1, <2>2 DEF Moves
<1>6. Honest(q)'
  BY <1>1, <1>2, <1>5 DEF Good, Honest, Beside, HasNonce, MintOf
<1>7. Reached(q)'
  <2> SUFFICES ASSUME NEW w \in Wallets, HasNonce(q, w)
               PROVE  (/\ q.told[w] = "accepted" => q.nonce[w] < Len(ledger[w])
                       /\ q.told[w] = "accepted" /\ w \notin q.beaten => Known(w, q.nonce[w], MintOf(q))
                       /\ q.at \in {"prime", "submit"} /\ q.told[w] = "none" /\ w \notin q.beaten =>
                             q.nonce[w] = Len(ledger[w]))'
    BY DEF Reached, HasNonce
  <2>1. /\ p.told[w] = "accepted" => p.nonce[w] < Len(ledger[w])
        /\ p.told[w] = "accepted" /\ w \notin p.beaten => Known(w, p.nonce[w], MintOf(p))
        /\ p.at \in {"prime", "submit"} /\ p.told[w] = "none" /\ w \notin p.beaten =>
              p.nonce[w] = Len(ledger[w])
    BY <1>2 DEF Good, Reached
  <2>2. /\ q.at = p.at /\ q.told = p.told /\ q.nonce = p.nonce /\ p.nonce[w] \in Nat
        /\ w \notin q.beaten => w \notin p.beaten
    BY <1>1, <1>2 DEF Beside
  <2>3. ASSUME Known(w, p.nonce[w], MintOf(p)) PROVE Known(w, p.nonce[w], MintOf(p))'
    <3>1. p.nonce[w] + 1 \in 1..Len(ledger[w]) /\ p.nonce[w] < Len(ledger'[w])
      BY <1>0, <2>2, <2>3 DEF Known
    <3>2. ledger'[w][p.nonce[w] + 1].tx = ledger[w][p.nonce[w] + 1].tx
      BY <3>1 DEF Moves
    <3>. QED
      BY <2>3, <3>1, <3>2 DEF Known
  <2>4. p.told[w] = "accepted" => p.nonce[w] < Len(ledger'[w])
    BY <1>0, <2>1, <2>2
  <2>5. p.at \in {"prime", "submit"} /\ p.told[w] = "none" /\ w \notin q.beaten =>
           Len(ledger'[w]) = Len(ledger[w])
    BY <1>2
  <2>. QED
    BY <1>2, <2>1, <2>2, <2>3, <2>4, <2>5
<1>. QED
  BY <1>3, <1>4, <1>6, <1>7 DEF Good

(* Beating changes nothing else.                                            *)
LEMMA BeatsBeside ==
    ASSUME NEW w \in Wallets, NEW p \in RunTypes
    PROVE  /\ Beside(p, Beats(w, p))
           /\ HasNonce(p, w) /\ p.told[w] = "none" => w \in Beats(w, p).beaten
<1>1. CASE p.nonce[w] # Unprimed /\ p.told[w] = "none"
  <2>1. PICK b : b = p.beaten \cup {w}
    OBVIOUS
  <2>2. b \in SUBSET Wallets /\ p.beaten \subseteq b /\ w \in b
    BY <2>1 DEF RunTypes
  <2>3. Beats(w, p) = [p EXCEPT !.beaten = b]
    BY <1>1, <2>1 DEF Beats
  <2>. QED
    BY <2>2, <2>3 DEF RunTypes, Beside
<1>2. CASE ~(p.nonce[w] # Unprimed /\ p.told[w] = "none")
  BY <1>2 DEF Beats, Beside, HasNonce
<1>. QED
  BY <1>1, <1>2

(* What a run was told before is carried on.                                *)
Carries(p, q) ==
    \A w \in Wallets : q.told[w] = "accepted" =>
        p.told[w] = "accepted" /\ q.nonce[w] = p.nonce[w] /\ p.beaten \subseteq q.beaten

(* One run may be told more: of its own transaction, or beaten.             *)
LearnsOf(p, q, w) ==
    \/ p.told[w] = "accepted" /\ q.nonce[w] = p.nonce[w] /\ p.beaten \subseteq q.beaten
    \/ w \in q.beaten
    \/ q.nonce[w] = Len(ledger[w])
Learns(p, q) == \A w \in Wallets : q.told[w] = "accepted" => LearnsOf(p, q, w)

(* When one run goes on and the others stay good, so does the whole.        *)
LEMMA RunsKeep ==
    ASSUME BatchInv, NEW r, run' \in [Runs -> RunTypes],
           \A s \in Runs : Good(run[s])',
           \A s \in Runs \ {r} : Carries(run[s], run'[s]),
           r \in Runs => Learns(run[r], run'[r]),
           Ledgers', Drift', FeeOnlyForResult'
    PROVE  BatchInv'
<1>1. ASSUME NEW s \in Runs \ {r}, NEW w \in Wallets, r \in Runs,
             run'[r].told[w] = "accepted", run'[s].told[w] = "accepted",
             run'[r].nonce[w] = run'[s].nonce[w]
      PROVE  w \in run'[r].beaten \cup run'[s].beaten
  <2>1. /\ run[s].told[w] = "accepted" /\ run'[s].nonce[w] = run[s].nonce[w]
        /\ run[s].beaten \subseteq run'[s].beaten
    BY <1>1 DEF Carries
  <2>2. LearnsOf(run[r], run'[r], w)
    BY <1>1 DEF Learns
  <2>3. CASE w \in run'[r].beaten
    BY <2>3
  <2>4. CASE run'[r].nonce[w] = Len(ledger[w])
    <3>1. Good(run[s])
      BY DEF BatchInv
    <3>2. HasNonce(run[s], w)
      BY <2>1, <3>1 DEF Good, Shape
    <3>3. run[s].nonce[w] < Len(ledger[w])
      BY <2>1, <3>1, <3>2 DEF Good, Reached
    <3>4. Len(ledger[w]) \in Nat
      BY DEF BatchInv, Ledgers
    <3>. QED
      BY <1>1, <2>1, <2>4, <3>3, <3>4
  <2>5. CASE /\ run[r].told[w] = "accepted" /\ run'[r].nonce[w] = run[r].nonce[w]
             /\ run[r].beaten \subseteq run'[r].beaten
    <3>1. w \in run[r].beaten \cup run[s].beaten
      BY <1>1, <2>1, <2>5 DEF BatchInv, Once
    <3>. QED
      BY <2>1, <2>5, <3>1
  <2>. QED
    BY <2>2, <2>3, <2>4, <2>5 DEF LearnsOf
<1>2. ASSUME NEW t \in Runs \ {r}, NEW s \in Runs \ {r}, NEW w \in Wallets, t # s,
             run'[t].told[w] = "accepted", run'[s].told[w] = "accepted",
             run'[t].nonce[w] = run'[s].nonce[w]
      PROVE  w \in run'[t].beaten \cup run'[s].beaten
  <2>1. /\ run[s].told[w] = "accepted" /\ run'[s].nonce[w] = run[s].nonce[w]
        /\ run[s].beaten \subseteq run'[s].beaten
    BY <1>2 DEF Carries
  <2>2. /\ run[t].told[w] = "accepted" /\ run'[t].nonce[w] = run[t].nonce[w]
        /\ run[t].beaten \subseteq run'[t].beaten
    BY <1>2 DEF Carries
  <2>3. w \in run[t].beaten \cup run[s].beaten
    BY <1>2, <2>1, <2>2 DEF BatchInv, Once
  <2>. QED
    BY <2>1, <2>2, <2>3
<1>3. Once'
  <2> SUFFICES ASSUME NEW t \in Runs, NEW s \in Runs, NEW w \in Wallets, t # s,
                      run'[t].told[w] = "accepted", run'[s].told[w] = "accepted",
                      run'[t].nonce[w] = run'[s].nonce[w]
               PROVE  w \in run'[t].beaten \cup run'[s].beaten
    BY DEF Once
  <2>1. CASE t = r
    BY <1>1, <2>1
  <2>2. CASE s = r
    BY <1>1, <2>2
  <2>3. CASE t # r /\ s # r
    BY <1>2, <2>3
  <2>. QED
    BY <2>1, <2>2, <2>3
<1>. QED
  BY <1>3 DEF BatchInv

(* A run that goes on without anything being taken.                         *)
LEMMA QuietKeeps ==
    ASSUME BatchInv, NEW r \in Runs, NEW q, Set(r, q), UNCHANGED <<ledger, mined>>, Drift',
           Good(q), Learns(run[r], q)
    PROVE  BatchInv'
<1>1. Ledgers' /\ Moves /\ ledger' = ledger /\ mined' = mined
  BY StillMoves DEF BatchInv
<1>2. q \in RunTypes /\ run' = [run EXCEPT ![r] = q] /\ run \in [Runs -> RunTypes]
  BY DEF Good, Shape, Set, BatchInv
<1>3. run' \in [Runs -> RunTypes] /\ run'[r] = q /\ \A s \in Runs \ {r} : run'[s] = run[s]
  BY <1>2
<1>4. \A p : Good(p) => Good(p)'
  BY <1>1 DEF Good, Shape, NoGap, Honest, Reached, HasNonce, Known
<1>5. \A s \in Runs : Good(run[s])'
  <2>1. \A s \in Runs : Good(run'[s])
    BY <1>3 DEF BatchInv
  <2>. QED
    BY <1>4, <2>1
<1>6. FeeOnlyForResult'
  BY <1>1 DEF BatchInv, FeeOnlyForResult, Fees, Deserved, Executed
<1>7. \A s \in Runs \ {r} : Carries(run[s], run'[s])
  BY <1>3 DEF Carries
<1>. QED
  BY <1>1, <1>3, <1>5, <1>6, <1>7, RunsKeep

(* Nothing is given up: what is adrift stays what it was.                   *)
LEMMA DriftStill ==
    ASSUME BatchInv, UNCHANGED <<ledger, mined, adrift>>
    PROVE  Drift'
BY DEF BatchInv, Drift, Deserved, Executed

(* A transaction that is taken beats the runs that wait for its nonce; the  *)
(* run it is of, if any, goes on as q.                                      *)
LEMMA TakesKeeps ==
    ASSUME BatchInv, NEW r, NEW q, NEW w \in Wallets, NEW tx \in Txs, Take(w, tx), UNCHANGED mined,
           tx.kind = "fee" => Deserved(tx),
           run' = [s \in Runs |-> IF s = r THEN q ELSE Beats(w, run[s])],
           r \in Runs => Good(q)' /\ Learns(run[r], q)
    PROVE  BatchInv'
<1>1. /\ Ledgers' /\ Moves
      /\ \A v \in Wallets \ {w} : ledger'[v] = ledger[v]
  BY TakeMoves DEF BatchInv
<1>2. Drift' /\ FeeOnlyForResult'
  BY TakeKeeps DEF BatchInv
<1>3. ASSUME NEW s \in Runs \ {r}, NEW b, b = run'[s]
      PROVE  b \in RunTypes /\ Good(b)' /\ Carries(run[s], b)
  <2>1. PICK p : p = run[s]
    OBVIOUS
  <2>2. b = Beats(w, p) /\ p \in RunTypes /\ Good(p)
    BY <1>3, <2>1 DEF BatchInv
  <2>3. Beside(p, b) /\ (HasNonce(p, w) /\ p.told[w] = "none" => w \in b.beaten)
    BY <2>2, BeatsBeside
  <2>4. \A v \in Wallets : HasNonce(p, v) /\ p.told[v] = "none" /\ v \notin b.beaten =>
                             Len(ledger'[v]) = Len(ledger[v])
    BY <1>1, <2>3
  <2>5. Ledgers
    BY DEF BatchInv
  <2>6. Good(b)'
    BY <1>1, <2>2, <2>3, <2>4, <2>5, GoodStays
  <2>7. Carries(p, b) /\ b \in RunTypes
    BY <2>3 DEF Beside, Carries
  <2>. QED
    BY <2>1, <2>6, <2>7
<1>4. ASSUME NEW s \in Runs, NEW b, b = run'[s]
      PROVE  b \in RunTypes /\ Good(b)'
  <2>1. CASE s = r
    <3>1. b = q
      BY <1>4, <2>1
    <3>. QED
      BY <2>1, <3>1 DEF Good, Shape
  <2>2. CASE s # r
    BY <1>3, <1>4, <2>2
  <2>. QED
    BY <2>1, <2>2
<1>5. run' \in [Runs -> RunTypes]
  BY <1>4
<1>6. \A s \in Runs : Good(run[s])'
  BY <1>4
<1>7. \A s \in Runs \ {r} : Carries(run[s], run'[s])
  BY <1>3
<1>8. r \in Runs => Learns(run[r], run'[r])
  OBVIOUS
<1>. QED
  BY <1>1, <1>2, <1>5, <1>6, <1>7, <1>8, RunsKeep

----------------------------------------------------------------------------
(* A run before its first await, and one that gave up, are good.            *)
LEMMA NewRunGood ==
    ASSUME Ledgers, NEW c \in Contracts, NEW q,
           q \in {NewRun(c), [NewRun(c) EXCEPT !.at = "done"]}
    PROVE  Good(q) /\ q \in RunTypes /\ \A w \in Wallets : q.told[w] = "none"
<1>1. AnyGas \in GasLimits
  BY MintBatchAssumption DEF AnyGas
<1>2. /\ q \in RunTypes /\ q.confirmed = {} /\ q.got = {} /\ q.at \in {"idle", "done"}
      /\ \A w \in Wallets : q.nonce[w] = Unprimed /\ q.told[w] = "none"
  <2> DEFINE n == [w \in Wallets |-> Unprimed]
             t == [w \in Wallets |-> "none"]
  <2>1. n \in [Wallets -> Nat \cup {Unprimed}] /\ \A w \in Wallets : n[w] = Unprimed
    OBVIOUS
  <2>2. t \in [Wallets -> {"none", "accepted", "rejected"}] /\ \A w \in Wallets : t[w] = "none"
    OBVIOUS
  <2>3. PICK a \in {"idle", "done"} :
           q = [at |-> a, contract |-> c, gas |-> AnyGas, funded |-> {}, nonce |-> n, told |-> t,
                beaten |-> {}, got |-> {}, confirmed |-> {}, feeNonce |-> 0, fee |-> "none"]
    BY DEF NewRun
  <2> HIDE DEF n, t
  <2>. QED
    BY <1>1, <2>1, <2>2, <2>3 DEF RunTypes, Steps
<1>3. \A w \in Wallets : Len(ledger[w]) \in Nat
  BY DEF Ledgers
<1>4. \A w \in Wallets : ~HasNonce(q, w)
  BY <1>2 DEF HasNonce
<1>5. NoGap(q)
  BY <1>2, <1>3 DEF NoGap, Unprimed
<1>6. Shape(q)
  BY <1>2, <1>4 DEF Shape
<1>. QED
  BY <1>2, <1>4, <1>5, <1>6 DEF Good, Honest, Reached

(* A run that gives up has told and signed nothing. *)
LEMMA GiveUpKeeps ==
    ASSUME BatchInv, NEW r \in Runs, GiveUp(r), UNCHANGED <<ledger, mined, adrift>>
    PROVE  BatchInv'
<1>1. PICK q : q = [NewRun(run[r].contract) EXCEPT !.at = "done"]
  OBVIOUS
<1>2. run[r].contract \in Contracts /\ Ledgers
  BY DEF BatchInv, RunTypes
<1>3. Good(q) /\ \A w \in Wallets : q.told[w] = "none"
  BY <1>1, <1>2, NewRunGood
<1>4. Learns(run[r], q)
  BY <1>3 DEF Learns
<1>5. Set(r, q)
  BY <1>1 DEF GiveUp
<1>. QED
  BY <1>3, <1>4, <1>5, DriftStill, QuietKeeps

(* Before its nonces are used a run may read and choose what it likes.      *)
Reads(p, q) ==
    /\ p.at \in Blank /\ q.at \in Early /\ q \in RunTypes
    /\ q.beaten = p.beaten /\ q.nonce = p.nonce /\ q.told = p.told
    /\ q.got = p.got /\ q.confirmed = p.confirmed

(* It is as good afterwards as it was.                                      *)
LEMMA ReadsKeeps ==
    ASSUME BatchInv, NEW r \in Runs, NEW q, Reads(run[r], q), Set(r, q),
           UNCHANGED <<ledger, mined, adrift>>
    PROVE  BatchInv'
<1>1. PICK p : p = run[r]
  OBVIOUS
<1>2. Good(p) /\ Reads(p, q)
  BY <1>1 DEF BatchInv
<1>3. /\ q.got = {} /\ q.confirmed = {}
      /\ \A w \in Wallets : q.told[w] = "none" /\ ~HasNonce(q, w)
  BY <1>2 DEF Reads, Good, Shape, Early, Blank, HasNonce
<1>4. Shape(q)
  BY <1>2, <1>3 DEF Reads, Good, Shape, Early, Blank, HasNonce
<1>5. NoGap(q) /\ Honest(q) /\ Reached(q)
  BY <1>2, <1>3 DEF Reads, Good, NoGap, Honest, Reached, HasNonce
<1>6. Learns(run[r], q)
  BY <1>3 DEF Learns
<1>. QED
  BY <1>4, <1>5, <1>6, DriftStill, QuietKeeps DEF Good

(* A run starts, the contract is judged, gas and funds are read.            *)
LEMMA EarlyKeeps ==
    ASSUME BatchInv, NEW r \in Runs, Begin(r) \/ Inspect(r) \/ Prepare(r)
    PROVE  BatchInv'
<1>1. UNCHANGED <<ledger, mined, adrift>> /\ run[r].at \in Blank
  BY DEF Begin, Inspect, Prepare, Blank
<1>2. CASE GiveUp(r)
  BY <1>1, <1>2, GiveUpKeeps
<1>3. CASE ~GiveUp(r)
  <2>1. PICK p : p = run[r]
    OBVIOUS
  <2>2. p \in RunTypes /\ p.at \in Blank
    BY <1>1, <2>1 DEF BatchInv
  <2>3. PICK funded \in SUBSET Wallets, g \in GasLimits, at \in {"inspect", "prepare", "prime"} :
           \/ Set(r, [p EXCEPT !.at = at])
           \/ Set(r, [p EXCEPT !.at = "prime", !.funded = funded, !.gas = g])
    <3>1. CASE Prepare(r)
      BY <1>3, <2>1, <3>1 DEF Prepare
    <3>2. CASE Begin(r) \/ Inspect(r)
      <4>1. \E at \in {"inspect", "prepare", "prime"} : Set(r, [p EXCEPT !.at = at])
        BY <1>3, <2>1, <3>2 DEF Begin, Inspect
      <4>2. GasLimits # {}
        BY MintBatchAssumption
      <4>. QED
        BY <4>1, <4>2
    <3>. QED
      BY <3>1, <3>2
  <2>4. PICK q : /\ Set(r, q)
                 /\ \/ q = [p EXCEPT !.at = at]
                    \/ q = [p EXCEPT !.at = "prime", !.funded = funded, !.gas = g]
    BY <2>3
  <2>5. Reads(p, q)
    <3>1. CASE q = [p EXCEPT !.at = at]
      BY <2>2, <2>3, <3>1 DEF Reads, RunTypes, Steps, Early, Blank
    <3>2. CASE q = [p EXCEPT !.at = "prime", !.funded = funded, !.gas = g]
      BY <2>2, <2>3, <3>2 DEF Reads, RunTypes, Steps, Early, Blank
    <3>. QED
      BY <2>4, <3>1, <3>2
  <2>. QED
    BY <1>1, <2>1, <2>4, <2>5, ReadsKeeps
<1>. QED
  BY <1>2, <1>3

(* A nonce is read where the sequencer's ledger ends, so it leaves no gap. *)
LEMMA PrimeKeeps ==
    ASSUME BatchInv, NEW r \in Runs, NEW w \in Wallets, Prime(r, w)
    PROVE  BatchInv'
<1>0. run[r].at = "prime" /\ UNCHANGED <<ledger, mined, adrift>>
  BY DEF Prime
<1>1. PICK p, n : p = run[r] /\ n = Len(ledger[w])
  OBVIOUS
<1>2. PICK q : q = [p EXCEPT !.nonce[w] = n]
  OBVIOUS
<1>3. p.at = "prime" /\ Good(p) /\ p \in RunTypes
  BY <1>0, <1>1 DEF BatchInv
<1>4. n \in Nat
  BY <1>1 DEF BatchInv, Ledgers
<1>5. /\ q \in RunTypes /\ q.at = "prime" /\ q.beaten = p.beaten
      /\ q.confirmed = p.confirmed /\ q.got = p.got /\ q.told = p.told
  BY <1>2, <1>3, <1>4 DEF RunTypes
<1>6. q.nonce[w] = n /\ \A v \in Wallets \ {w} : q.nonce[v] = p.nonce[v]
  BY <1>2, <1>3 DEF RunTypes
<1>7. q.got = {} /\ q.confirmed = {} /\ \A v \in Wallets : q.told[v] = "none"
  BY <1>3, <1>5 DEF Good, Shape, Early, Blank
<1>8. Shape(q)
  BY <1>5, <1>7 DEF Shape, Blank
<1>9. NoGap(q)
  BY <1>1, <1>3, <1>4, <1>6 DEF Good, NoGap
<1>10. Reached(q)
  <2>1. ASSUME NEW v \in Wallets, HasNonce(q, v), v \notin q.beaten
        PROVE  q.nonce[v] = Len(ledger[v])
    <3>1. CASE v = w
      BY <1>1, <1>6, <3>1
    <3>2. CASE v # w
      <4>1. HasNonce(p, v) /\ q.nonce[v] = p.nonce[v] /\ v \notin p.beaten /\ p.told[v] = "none"
        BY <1>5, <1>6, <1>7, <2>1, <3>2 DEF HasNonce
      <4>. QED
        BY <1>3, <4>1 DEF Good, Reached
    <3>. QED
      BY <3>1, <3>2
  <2>. QED
    BY <1>7, <2>1 DEF Reached
<1>11. Good(q) /\ Learns(run[r], q)
  BY <1>7, <1>8, <1>9, <1>10 DEF Good, Honest, Learns
<1>12. Set(r, q)
  BY <1>1, <1>2 DEF Prime, PendingNonce
<1>. QED
  BY <1>0, <1>11, <1>12, DriftStill, QuietKeeps

(* Signing uses the nonces that were read. *)
LEMMA SignKeeps ==
    ASSUME BatchInv, NEW r \in Runs, Sign(r)
    PROVE  BatchInv'
<1>0. run[r].at = "prime" /\ UNCHANGED <<ledger, mined, adrift>>
  BY DEF Sign
<1>1. CASE GiveUp(r)
  BY <1>0, <1>1, GiveUpKeeps
<1>2. CASE ~GiveUp(r)
  <2>1. PICK p : p = run[r]
    OBVIOUS
  <2>2. PICK q : q = [p EXCEPT !.at = "submit"]
    OBVIOUS
  <2>3. p.at = "prime" /\ Good(p) /\ p \in RunTypes
    BY <1>0, <2>1 DEF BatchInv
  <2>4. /\ q \in RunTypes /\ q.at = "submit" /\ q.beaten = p.beaten /\ q.got = p.got
        /\ q.confirmed = p.confirmed /\ q.told = p.told /\ q.nonce = p.nonce
        /\ q.funded = p.funded
    BY <2>2, <2>3 DEF RunTypes, Steps
  <2>5. \A w \in p.funded : HasNonce(q, w)
    BY <1>2, <2>1, <2>4 DEF Sign, HasNonce
  <2>6. q.got = {} /\ q.confirmed = {} /\ \A w \in Wallets : q.told[w] = "none"
    BY <2>3, <2>4 DEF Good, Shape, Early, Blank
  <2>7. Shape(q)
    BY <2>4, <2>5, <2>6 DEF Shape, Early, Blank
  <2>8. NoGap(q)
    BY <2>3, <2>4 DEF Good, NoGap
  <2>9. Reached(q)
    BY <2>3, <2>4, <2>6 DEF Good, Reached, HasNonce
  <2>10. Good(q) /\ Learns(run[r], q)
    BY <2>6, <2>7, <2>8, <2>9 DEF Good, Honest, Learns
  <2>11. Set(r, q)
    BY <1>2, <2>1, <2>2 DEF Sign
  <2>. QED
    BY <1>0, <2>10, <2>11, DriftStill, QuietKeeps
<1>. QED
  BY <1>1, <1>2

(* What is given up is no fee, or one that is deserved.                     *)
LEMMA MissedKeeps ==
    ASSUME BatchInv, NEW w \in Wallets, NEW n, NEW tx \in Txs, tx.kind = "fee" => Deserved(tx),
           Missed(w, n, tx), UNCHANGED mined
    PROVE  ledger' = ledger /\ mined' = mined /\ Drift'
<1>1. ledger' = ledger /\ mined' = mined
  BY DEF Missed
<1>2. /\ adrift' \in [Wallets -> SUBSET Txs]
      /\ \A v \in Wallets : adrift'[v] \subseteq adrift[v] \cup {tx}
  BY DEF Missed, BatchInv, Drift
<1>3. \A v \in Wallets : \A x \in adrift'[v] : x.kind = "fee" => Deserved(x)
  BY <1>2 DEF BatchInv, Drift
<1>4. \A x : Deserved(x) => Deserved(x)'
  BY <1>1 DEF Deserved, Executed
<1>. QED
  BY <1>1, <1>2, <1>3, <1>4 DEF Drift

(* What the sequencer answers is kept by a run: "accepted" is told of its    *)
(* own transaction, or of a nonce it was beaten to.                         *)
LEMMA AnswerGood ==
    ASSUME Ledgers, Ledgers', Moves, NEW p, Good(p), p.at = "submit", NEW w \in Wallets, HasNonce(p, w),
           p.told[w] = "none",
           \A v \in Wallets \ {w} : Len(ledger'[v]) = Len(ledger[v]),
           NEW told \in {"accepted", "rejected"},
           told = "accepted" => p.nonce[w] < Len(ledger'[w]),
           told = "accepted" => Known(w, p.nonce[w], MintOf(p))' \/ w \in p.beaten,
           NEW q, q = [p EXCEPT !.told[w] = told]
    PROVE  Good(q)' /\ q.beaten = p.beaten
<1>1. PICK m : m = [p EXCEPT !.told[w] = "rejected"]
  OBVIOUS
<1>2. p \in RunTypes
  BY DEF Good, Shape
<1>3. /\ m \in RunTypes /\ m.at = "submit" /\ m.beaten = p.beaten /\ m.got = p.got
      /\ m.confirmed = p.confirmed /\ m.nonce = p.nonce
      /\ m.funded = p.funded /\ m.contract = p.contract /\ m.gas = p.gas
      /\ m.told[w] = "rejected" /\ \A v \in Wallets \ {w} : m.told[v] = p.told[v]
  BY <1>1, <1>2 DEF RunTypes, Steps
<1>4. /\ q \in RunTypes /\ q.at = "submit" /\ q.beaten = p.beaten /\ q.got = p.got
      /\ q.confirmed = p.confirmed /\ q.nonce = p.nonce
      /\ q.funded = p.funded /\ q.contract = p.contract /\ q.gas = p.gas
      /\ q.told[w] = told /\ \A v \in Wallets \ {w} : q.told[v] = p.told[v]
  BY <1>2 DEF RunTypes, Steps
<1>5. w \notin p.got
  BY DEF Good, Shape
<1>6. Good(m)
  <2>1. p.got \subseteq Wallets
    BY <1>2 DEF RunTypes
  <2>2. Shape(m)
    BY <1>3, <1>5, <2>1 DEF Good, Shape, Early, Blank, HasNonce
  <2>3. NoGap(m) /\ Honest(m)
    BY <1>3 DEF Good, NoGap, Honest, HasNonce, MintOf
  <2>4. Reached(m)
    BY <1>3 DEF Good, Reached, HasNonce, MintOf
  <2>. QED
    BY <2>2, <2>3, <2>4 DEF Good
<1>7. Beside(m, m) /\ \A v \in Wallets : HasNonce(m, v) /\ m.told[v] = "none" => v # w
  BY <1>3 DEF Beside
<1>8. Good(m)'
  BY <1>6, <1>7, GoodStays
<1>9. Shape(q)'
  <2>1. p.got \subseteq Wallets
    BY <1>2 DEF RunTypes
  <2>2. Shape(q)
    BY <1>4, <1>5, <2>1 DEF Good, Shape, Early, Blank, HasNonce
  <2>. QED
    BY <2>2 DEF Shape, HasNonce
<1>10. NoGap(q)' /\ Honest(q)'
  BY <1>3, <1>4, <1>8 DEF Good, NoGap, Honest, HasNonce, MintOf
<1>11. Reached(q)'
  <2> SUFFICES ASSUME NEW v \in Wallets, HasNonce(q, v)
               PROVE  (/\ q.told[v] = "accepted" => q.nonce[v] < Len(ledger[v])
                       /\ q.told[v] = "accepted" /\ v \notin q.beaten => Known(v, q.nonce[v], MintOf(q))
                       /\ q.at \in {"prime", "submit"} /\ q.told[v] = "none" /\ v \notin q.beaten =>
                             q.nonce[v] = Len(ledger[v]))'
    BY DEF Reached, HasNonce
  <2>1. MintOf(q) = MintOf(p) /\ MintOf(m) = MintOf(p) /\ HasNonce(m, v)
    BY <1>3, <1>4 DEF MintOf, HasNonce
  <2>2. CASE v = w
    BY <1>4, <2>1, <2>2
  <2>3. CASE v # w
    <3>1. (/\ m.told[v] = "accepted" => m.nonce[v] < Len(ledger[v])
           /\ m.told[v] = "accepted" /\ v \notin m.beaten => Known(v, m.nonce[v], MintOf(m))
           /\ m.at \in {"prime", "submit"} /\ m.told[v] = "none" /\ v \notin m.beaten =>
                 m.nonce[v] = Len(ledger[v]))'
      BY <1>8, <2>1 DEF Good, Reached, HasNonce
    <3>. QED
      BY <1>3, <1>4, <2>1, <2>3, <3>1
  <2>. QED
    BY <2>2, <2>3
<1>. QED
  BY <1>4, <1>9, <1>10, <1>11 DEF Good

(* A transaction reaches the sequencer, or the nonce it was signed with is   *)
(* taken, or it is given up.                                                *)
LEMMA SubmitKeeps ==
    ASSUME BatchInv, NEW r \in Runs, NEW w \in Wallets, SubmitOne(r, w)
    PROVE  BatchInv'
<1>0. run[r].at = "submit" /\ mined' = mined /\ Ledgers
  BY DEF SubmitOne, BatchInv
<1>1. PICK p : p = run[r]
  OBVIOUS
<1>2. p.at = "submit" /\ Good(p) /\ p \in RunTypes /\ w \in p.funded /\ p.told[w] = "none"
  BY <1>0, <1>1 DEF BatchInv, SubmitOne
<1>3. HasNonce(p, w) /\ p.nonce[w] \in Nat
  BY <1>2 DEF Good, Shape, RunTypes, HasNonce, Unprimed
<1>4. Mint(r) = MintOf(p) /\ MintOf(p) \in Txs /\ MintOf(p).kind = "mint"
  BY <1>1, <1>2 DEF Mint, MintOf, MintTx, Txs, RunTypes
<1>5. Len(ledger[w]) \in Nat /\ mined[w] \in Nat /\ mined[w] <= Len(ledger[w])
  BY <1>0 DEF Ledgers
<1>6. \/ \E told \in {"accepted", "rejected"} :
            Fresh(w, p.nonce[w]) /\ Takes(r, [p EXCEPT !.told[w] = told], w, MintOf(p))
      \/ /\ TooLow(w, p.nonce[w]) \/ Known(w, p.nonce[w], MintOf(p))
         /\ Set(r, [p EXCEPT !.told[w] = "accepted"]) /\ UNCHANGED <<ledger, adrift>>
      \/ Set(r, [p EXCEPT !.told[w] = "rejected"]) /\ Missed(w, p.nonce[w], MintOf(p))
  BY <1>1, <1>4 DEF SubmitOne, Answered
<1>7. ASSUME NEW told \in {"accepted", "rejected"}, NEW q, q = [p EXCEPT !.told[w] = told],
             told = "accepted" => w \in p.beaten \/ p.nonce[w] = Len(ledger[w])
      PROVE  Learns(p, q)
  <2>1. /\ q.beaten = p.beaten /\ q.nonce = p.nonce /\ q.told[w] = told
        /\ \A v \in Wallets \ {w} : q.told[v] = p.told[v]
    BY <1>2, <1>7 DEF RunTypes
  <2>. QED
    BY <1>7, <2>1 DEF Learns, LearnsOf
<1>8. ASSUME NEW told \in {"accepted", "rejected"}, Fresh(w, p.nonce[w]),
             Takes(r, [p EXCEPT !.told[w] = told], w, MintOf(p))
      PROVE  BatchInv'
  <2>1. PICK q : q = [p EXCEPT !.told[w] = told]
    OBVIOUS
  <2>2. /\ Take(w, MintOf(p))
        /\ run' = [s \in Runs |-> IF s = r THEN q ELSE Beats(w, run[s])]
    BY <1>8, <2>1 DEF Takes
  <2>3. /\ Ledgers' /\ Moves
        /\ \A v \in Wallets \ {w} : ledger'[v] = ledger[v]
        /\ Len(ledger'[w]) = Len(ledger[w]) + 1
        /\ ledger'[w][Len(ledger[w]) + 1].tx = MintOf(p)
    BY <1>0, <1>4, <2>2, TakeMoves
  <2>4. Known(w, p.nonce[w], MintOf(p))' /\ p.nonce[w] = Len(ledger[w]) /\ p.nonce[w] < Len(ledger'[w])
    BY <1>3, <1>5, <1>8, <2>3 DEF Known, Fresh
  <2>5. Good(q)'
    BY <1>0, <1>2, <1>3, <2>1, <2>3, <2>4, AnswerGood
  <2>6. Learns(run[r], q)
    BY <1>1, <1>7, <2>1, <2>4
  <2>. QED
    BY <1>0, <1>4, <2>2, <2>5, <2>6, TakesKeeps
<1>9. ASSUME NEW told \in {"accepted", "rejected"}, Set(r, [p EXCEPT !.told[w] = told]),
             told = "accepted" => TooLow(w, p.nonce[w]) \/ Known(w, p.nonce[w], MintOf(p)),
             ledger' = ledger, Drift'
      PROVE  BatchInv'
  <2>1. PICK q : q = [p EXCEPT !.told[w] = told]
    OBVIOUS
  <2>2. Ledgers' /\ Moves
    BY <1>0, <1>9, StillMoves
  <2>3. told = "accepted" => p.nonce[w] < Len(ledger[w])
    BY <1>3, <1>5, <1>9 DEF TooLow, Known
  <2>4. told = "accepted" => w \in p.beaten
    <3>1. w \notin p.beaten => p.nonce[w] = Len(ledger[w])
      BY <1>2, <1>3 DEF Good, Reached
    <3>. QED
      BY <1>3, <1>5, <2>3, <3>1
  <2>5. Good(q)'
    BY <1>0, <1>2, <1>3, <1>9, <2>1, <2>2, <2>3, <2>4, AnswerGood
  <2>6. Good(q)
    BY <1>0, <1>9, <2>5 DEF Good, Shape, NoGap, Honest, Reached, HasNonce, Known
  <2>7. Learns(run[r], q)
    BY <1>1, <1>7, <2>1, <2>4
  <2>. QED
    BY <1>0, <1>9, <2>1, <2>6, <2>7, QuietKeeps
<1>10. CASE /\ TooLow(w, p.nonce[w]) \/ Known(w, p.nonce[w], MintOf(p))
            /\ Set(r, [p EXCEPT !.told[w] = "accepted"]) /\ UNCHANGED <<ledger, adrift>>
  <2>1. Drift'
    BY <1>0, <1>10, DriftStill
  <2>. QED
    BY <1>9, <1>10, <2>1
<1>11. CASE Set(r, [p EXCEPT !.told[w] = "rejected"]) /\ Missed(w, p.nonce[w], MintOf(p))
  <2>1. ledger' = ledger /\ Drift'
    BY <1>0, <1>4, <1>11, MissedKeeps
  <2>. QED
    BY <1>9, <1>11, <2>1
<1>. QED
  BY <1>6, <1>8, <1>10, <1>11

(* A receipt is about an executed transaction of the run's own. *)
LEMMA ReceiveKeeps ==
    ASSUME BatchInv, NEW r \in Runs, NEW w \in Wallets, Receive(r, w)
    PROVE  BatchInv'
<1>0. run[r].at = "submit" /\ UNCHANGED <<ledger, mined, adrift>>
  BY DEF Receive
<1>1. PICK p : p = run[r]
  OBVIOUS
<1>2. /\ p.at = "submit" /\ Good(p) /\ p \in RunTypes /\ w \in p.funded
      /\ p.told[w] = "accepted"
  BY <1>0, <1>1 DEF BatchInv, Receive
<1>3. PICK won : won = IF ledger[w][p.nonce[w] + 1].ok THEN {w} ELSE {}
  OBVIOUS
<1>4. PICK q : q = [p EXCEPT !.got = @ \cup {w}, !.confirmed = @ \cup won]
  OBVIOUS
<1>5. Set(r, q)
  BY <1>1, <1>3, <1>4 DEF Receive
<1>6. won \subseteq Wallets
  BY <1>3
<1>7. /\ q \in RunTypes /\ q.at = "submit" /\ q.beaten = p.beaten
      /\ q.nonce = p.nonce /\ q.told = p.told /\ q.got = p.got \cup {w}
      /\ q.funded = p.funded /\ q.contract = p.contract /\ q.gas = p.gas
      /\ q.confirmed = p.confirmed \cup won
  BY <1>2, <1>4, <1>6 DEF RunTypes
<1>8. Mint(r) = MintOf(p) /\ MintOf(q) = MintOf(p)
  BY <1>1, <1>7 DEF Mint, MintOf
<1>9. HasNonce(p, w) /\ p.nonce[w] \in Nat /\ mined[w] \in Nat
  BY <1>2 DEF Good, Shape, RunTypes, HasNonce, Unprimed, BatchInv, Ledgers
<1>10. p.nonce[w] + 1 <= mined[w] /\ ledger[w][p.nonce[w] + 1].tx = MintOf(p)
  BY <1>1, <1>8, <1>9 DEF Receive, HasReceipt
<1>11. Honest(q)
  BY <1>2, <1>3, <1>7, <1>8, <1>9, <1>10 DEF Good, Honest, HasNonce
<1>12. Shape(q)
  BY <1>2, <1>7 DEF Good, Shape, HasNonce, Early, Blank
<1>13. NoGap(q) /\ Reached(q)
  BY <1>2, <1>7, <1>8 DEF Good, NoGap, Reached, HasNonce
<1>14. Learns(run[r], q)
  BY <1>1, <1>7 DEF Learns, LearnsOf
<1>. QED
  BY <1>0, <1>5, <1>11, <1>12, <1>13, <1>14, DriftStill, QuietKeeps DEF Good

(* A run past its transactions only changes how it ends. *)
Later(p, q) ==
    /\ q \in RunTypes /\ q.at \in {"done", "fee", "charge"} /\ q.beaten = p.beaten
    /\ q.nonce = p.nonce /\ q.told = p.told /\ q.got = p.got /\ q.confirmed = p.confirmed
    /\ q.funded = p.funded /\ q.contract = p.contract /\ q.gas = p.gas
    /\ q.at # "done" => p.confirmed # {}

(* Going on after the submission changes nothing the run knows. *)
LEMMA LaterGood ==
    ASSUME NEW p, Good(p), p.at \in {"submit", "fee", "charge"}, NEW q, Later(p, q)
    PROVE  Good(q) /\ Learns(p, q)
<1>1. Shape(q)
  BY DEF Later, Good, Shape, HasNonce, Early, Blank
<1>2. MintOf(q) = MintOf(p)
  BY DEF Later, MintOf
<1>3. NoGap(q) /\ Honest(q)
  BY <1>2 DEF Later, Good, NoGap, Honest, HasNonce
<1>4. Reached(q)
  BY <1>2 DEF Later, Good, Reached, HasNonce
<1>5. Learns(p, q)
  BY DEF Later, Learns, LearnsOf
<1>. QED
  BY <1>1, <1>3, <1>4, <1>5 DEF Good

(* The poll ends and the nonce for the fee is read.                         *)
LEMMA EndKeeps ==
    ASSUME BatchInv, NEW r \in Runs, EndPoll(r) \/ ReadForFee(r)
    PROVE  BatchInv'
<1>0. run[r].at \in {"submit", "fee"} /\ UNCHANGED <<ledger, mined, adrift>>
  BY DEF EndPoll, ReadForFee
<1>1. PICK p : p = run[r]
  OBVIOUS
<1>2. p.at \in {"submit", "fee"} /\ Good(p) /\ p \in RunTypes
  BY <1>0, <1>1 DEF BatchInv
<1>3. PendingNonce(First) \in Nat
  BY MintBatchAssumption DEF BatchInv, Ledgers, PendingNonce
<1>a. PICK n : n = PendingNonce(First)
  OBVIOUS
<1>4. PICK at \in {"done", "fee"}, fee \in {"none", "error"} :
           \/ Set(r, [p EXCEPT !.at = at]) /\ (at = "fee" => p.confirmed # {})
           \/ Set(r, [p EXCEPT !.at = "charge", !.feeNonce = n]) /\ p.at = "fee"
           \/ Set(r, [p EXCEPT !.at = "done", !.fee = fee])
  BY <1>1, <1>a DEF EndPoll, ReadForFee, Ended, Billed
<1>5. PICK q : /\ Set(r, q)
               /\ \/ q = [p EXCEPT !.at = at] /\ (at = "fee" => p.confirmed # {})
                  \/ q = [p EXCEPT !.at = "charge", !.feeNonce = n] /\ p.at = "fee"
                  \/ q = [p EXCEPT !.at = "done", !.fee = fee]
  BY <1>4
<1>6. Later(p, q)
  <2>1. CASE q = [p EXCEPT !.at = at] /\ (at = "fee" => p.confirmed # {})
    BY <1>2, <1>4, <2>1 DEF RunTypes, Steps, Later
  <2>2. CASE q = [p EXCEPT !.at = "charge", !.feeNonce = n] /\ p.at = "fee"
    <3>1. p.confirmed # {}
      BY <1>2, <2>2 DEF Good, Shape
    <3>. QED
      BY <1>2, <1>3, <1>a, <2>2, <3>1 DEF RunTypes, Steps, Later
  <2>3. CASE q = [p EXCEPT !.at = "done", !.fee = fee]
    BY <1>2, <1>4, <2>3 DEF RunTypes, Steps, Later
  <2>. QED
    BY <1>5, <2>1, <2>2, <2>3
<1>7. Good(q) /\ Learns(run[r], q)
  BY <1>1, <1>2, <1>6, LaterGood
<1>. QED
  BY <1>0, <1>5, <1>7, DriftStill, QuietKeeps

(* The fee is worked out from executed mints, and only when one landed.     *)
LEMMA ChargeKeeps ==
    ASSUME BatchInv, NEW r \in Runs, Charge(r)
    PROVE  BatchInv'
<1>0. run[r].at = "charge" /\ mined' = mined /\ Ledgers /\ First \in Wallets
  BY MintBatchAssumption DEF Charge, BatchInv
<1>1. PICK p : p = run[r]
  OBVIOUS
<1>2. p.at = "charge" /\ Good(p) /\ p \in RunTypes
  BY <1>0, <1>1 DEF BatchInv
<1>3. PICK bills : bills = {<<w, p.nonce[w]>> : w \in p.got}
  OBVIOUS
<1>4. bills = Bills(r) /\ p.confirmed # {}
  <2>1. p.confirmed # {}
    BY <1>2 DEF Good, Shape
  <2>. QED
    BY <1>1, <1>3, <2>1 DEF Bills, Billed
<1>5. ASSUME NEW w \in p.got
      PROVE  /\ w \in Wallets /\ p.nonce[w] \in Nat /\ p.nonce[w] + 1 <= mined[w]
             /\ ledger[w][p.nonce[w] + 1].tx = MintOf(p)
  <2>1. w \in Wallets
    BY <1>2 DEF RunTypes
  <2>. QED
    BY <1>2, <2>1 DEF Good, Honest, RunTypes, HasNonce, Unprimed
<1>6. PICK tx : tx = FeeTx(p.contract, bills)
  OBVIOUS
<1>7. tx \in Txs /\ tx.bills = bills /\ tx.contract = p.contract
  <2>1. AnyGas \in GasLimits
    BY MintBatchAssumption DEF AnyGas
  <2>2. bills \subseteq Wallets \X Nat
    BY <1>3, <1>5
  <2>3. p.contract \in Contracts
    BY <1>2 DEF RunTypes
  <2>. QED
    BY <1>6, <2>1, <2>2, <2>3 DEF FeeTx, Txs
<1>8. Deserved(tx)
  <2>1. ASSUME NEW m \in bills PROVE Executed(m, p.contract)
    <3>1. PICK w \in p.got : m = <<w, p.nonce[w]>>
      BY <1>3
    <3>2. MintOf(p).kind = "mint" /\ MintOf(p).contract = p.contract
      BY DEF MintOf, MintTx
    <3>3. m[1] = w /\ m[2] = p.nonce[w]
      BY <3>1
    <3>. QED
      BY <1>5, <3>2, <3>3 DEF Executed
  <2>2. \E m \in bills : ledger[m[1]][m[2] + 1].ok
    <3>1. PICK w \in p.confirmed : TRUE
      BY <1>4
    <3>2. w \in p.got /\ ledger[w][p.nonce[w] + 1].ok
      BY <1>2 DEF Good, Honest
    <3>3. PICK m : m = <<w, p.nonce[w]>>
      OBVIOUS
    <3>4. m \in bills /\ m[1] = w /\ m[2] = p.nonce[w]
      BY <1>3, <3>2, <3>3
    <3>. QED
      BY <3>2, <3>4
  <2>. QED
    BY <1>7, <2>1, <2>2 DEF Deserved
<1>a. PICK fee \in {"paid", "error"} :
           \/ Takes(r, [p EXCEPT !.at = "done", !.fee = fee], First, tx)
           \/ Set(r, [p EXCEPT !.at = "done", !.fee = fee]) /\ Missed(First, run[r].feeNonce, tx)
  BY <1>1, <1>4, <1>6 DEF Charge, Ended
<1>9. PICK q : /\ q = [p EXCEPT !.at = "done", !.fee = fee]
               /\ \/ Takes(r, q, First, tx)
                  \/ Set(r, q) /\ Missed(First, run[r].feeNonce, tx)
  BY <1>a
<1>10. Later(p, q)
  BY <1>2, <1>9 DEF RunTypes, Steps, Later
<1>11. Good(q) /\ Learns(run[r], q)
  BY <1>1, <1>2, <1>10, LaterGood
<1>12. CASE Takes(r, q, First, tx)
  <2>1. Take(First, tx) /\ run' = [s \in Runs |-> IF s = r THEN q ELSE Beats(First, run[s])]
    BY <1>12 DEF Takes
  <2>2. Ledgers' /\ Moves /\ \A v \in Wallets \ {First} : ledger'[v] = ledger[v]
    BY <1>0, <1>7, <2>1, TakeMoves
  <2>3. Good(q)'
    <3>1. Beside(q, q)
      BY <1>10 DEF Later, Beside
    <3>2. q.at \notin {"prime", "submit"}
      BY <1>10 DEF Later
    <3>. QED
      BY <1>0, <1>11, <2>2, <3>1, <3>2, GoodStays
  <2>. QED
    BY <1>0, <1>7, <1>8, <1>11, <2>1, <2>3, TakesKeeps
<1>13. CASE Set(r, q) /\ Missed(First, run[r].feeNonce, tx)
  <2>1. ledger' = ledger /\ mined' = mined /\ Drift'
    BY <1>0, <1>7, <1>8, <1>13, MissedKeeps
  <2>. QED
    BY <1>11, <1>13, <2>1, QuietKeeps
<1>. QED
  BY <1>9, <1>12, <1>13

(* What was given up arrives and beats the runs that wait for its nonce.    *)
LEMMA LateKeeps ==
    ASSUME BatchInv, NEW w \in Wallets, ArrivesLate(w)
    PROVE  BatchInv'
<1>1. PICK tx \in adrift[w] : Take(w, tx)
  BY DEF ArrivesLate
<1>2. tx \in Txs /\ (tx.kind = "fee" => Deserved(tx))
  BY <1>1 DEF BatchInv, Drift
<1>3. PICK r : r \notin Runs
  BY NoSetContainsEverything
<1>4. run' = [s \in Runs |-> IF s = r THEN r ELSE Beats(w, run[s])] /\ mined' = mined
  BY <1>3 DEF ArrivesLate
<1>. QED
  BY <1>1, <1>2, <1>3, <1>4, TakesKeeps

(* The chain executes the next transaction of a wallet. *)
LEMMA MineKeeps ==
    ASSUME BatchInv, NEW w \in Wallets, Mine(w)
    PROVE  BatchInv'
<1>1. /\ Ledgers /\ Ledgers' /\ Moves /\ run' = run /\ adrift' = adrift
      /\ \A v \in Wallets : Len(ledger'[v]) = Len(ledger[v])
  BY MineMoves DEF BatchInv, Mine
<1>2. ASSUME NEW p, Good(p) PROVE Good(p)'
  <2>1. Beside(p, p)
    BY <1>2 DEF Good, Shape, Beside
  <2>. QED
    BY <1>1, <1>2, <2>1, GoodStays
<1>3. \A r \in Runs : Good(run[r])'
  BY <1>1, <1>2 DEF BatchInv
<1>4. Drift'
  BY <1>1, DeservedStays DEF BatchInv, Drift
<1>5. ASSUME NEW i \in 1..Len(ledger'[First]), NEW x, x = ledger'[First][i].tx, x.kind = "fee"
      PROVE  Deserved(x)'
  <2>1. First \in Wallets /\ ledger[First] \in Seq(Entries)
    BY <1>1, MintBatchAssumption DEF Ledgers
  <2>2. i \in 1..Len(ledger[First]) /\ x = ledger[First][i].tx
    BY <1>1, <1>5, <2>1 DEF Moves
  <2>3. ledger[First][i] \in Entries
    BY <2>1, <2>2
  <2>4. x \in Txs /\ Deserved(x)
    BY <1>5, <2>2, <2>3 DEF Entries, BatchInv, FeeOnlyForResult, Fees
  <2>. QED
    BY <1>1, <2>4, DeservedStays
<1>6. FeeOnlyForResult'
  BY <1>5 DEF FeeOnlyForResult, Fees
<1>. QED
  BY <1>1, <1>3, <1>4, <1>6 DEF BatchInv, Once

----------------------------------------------------------------------------
(* No run is under way and nothing was sent at the start. *)
LEMMA BatchInit == Init => BatchInv
<1> SUFFICES ASSUME Init PROVE BatchInv
  OBVIOUS
<1>1. /\ ledger = [w \in Wallets |-> <<>>] /\ mined = [w \in Wallets |-> 0]
      /\ adrift = [w \in Wallets |-> {}]
      /\ \A r \in Runs : \E c \in Contracts : run[r] = NewRun(c)
      /\ run = [r \in Runs |-> run[r]]
  BY DEF Init
<1>2. Ledgers /\ Drift
  BY <1>1 DEF Ledgers, Drift
<1>3. ASSUME NEW r \in Runs
      PROVE  Good(run[r]) /\ run[r] \in RunTypes /\ \A w \in Wallets : run[r].told[w] = "none"
  <2>1. PICK c \in Contracts : run[r] = NewRun(c)
    BY <1>1
  <2>. QED
    BY <1>2, <2>1, NewRunGood
<1>4. run \in [Runs -> RunTypes]
  BY <1>1, <1>3
<1>5. Once
  BY <1>3 DEF Once
<1>6. FeeOnlyForResult
  BY <1>1, MintBatchAssumption DEF FeeOnlyForResult, Fees
<1>. QED
  BY <1>2, <1>3, <1>4, <1>5, <1>6 DEF BatchInv

(* Each step of a run or of the chain keeps the invariant. *)
LEMMA BatchStep == BatchInv /\ [Next]_vars => BatchInv'
<1> SUFFICES ASSUME BatchInv, [Next]_vars PROVE BatchInv'
  OBVIOUS
<1>1. ASSUME NEW r \in Runs, Begin(r) \/ RunStep(r)
      PROVE  BatchInv'
  <2>1. CASE Begin(r) \/ Inspect(r) \/ Prepare(r)
    BY <2>1, EarlyKeeps
  <2>2. CASE PrimeFails(r)
    <3>1. GiveUp(r) /\ UNCHANGED <<ledger, mined, adrift>>
      BY <2>2 DEF PrimeFails
    <3>. QED
      BY <3>1, GiveUpKeeps
  <2>3. CASE Sign(r)
    BY <2>3, SignKeeps
  <2>4. CASE \E w \in Wallets : Prime(r, w) \/ SubmitOne(r, w) \/ Receive(r, w)
    BY <2>4, PrimeKeeps, SubmitKeeps, ReceiveKeeps
  <2>5. CASE EndPoll(r) \/ ReadForFee(r)
    BY <2>5, EndKeeps
  <2>6. CASE Charge(r)
    BY <2>6, ChargeKeeps
  <2>. QED
    BY <1>1, <2>1, <2>2, <2>3, <2>4, <2>5, <2>6 DEF RunStep
<1>2. CASE \E w \in Wallets : Mine(w) \/ ArrivesLate(w)
  BY <1>2, MineKeeps, LateKeeps
<1>3. CASE UNCHANGED vars
  <2>1. ledger' = ledger /\ mined' = mined /\ run' = run /\ adrift' = adrift
    BY <1>3 DEF vars
  <2>2. \A p : Good(p) => Good(p)'
    BY <2>1 DEF Good, Shape, NoGap, Honest, Reached, HasNonce, Known
  <2>3. Drift' /\ FeeOnlyForResult'
    BY <2>1 DEF BatchInv, Drift, FeeOnlyForResult, Fees, Deserved, Executed
  <2>. QED
    BY <2>1, <2>2, <2>3 DEF BatchInv, Ledgers, Once
<1>. QED
  BY <1>1, <1>2, <1>3 DEF Next

(* It holds of every behaviour. *)
LEMMA BatchInvHolds == Spec => []BatchInv
BY BatchInit, BatchStep, PTL DEF Spec

(* The locals of every run are those mintCandidate can have, and no nonce   *)
(* is ever signed beyond the next free one: a gap would stall the wallet.   *)
THEOREM TypeCorrect == Spec => []TypeOK
<1>1. BatchInv => TypeOK
  BY DEF BatchInv, Ledgers, Drift, Entries, Good, NoGap, TypeOK
<1>. QED
  BY <1>1, BatchInvHolds, PTL

(* A purchase reports a mint as confirmed only when its own transaction was *)
(* executed without a revert (waitForReceipts asks for it by hash), however *)
(* many rounds and presses use the same wallets' nonces at once.            *)
THEOREM HonestSafe == Spec => []HonestReport
<1>1. BatchInv => HonestReport
  <2> SUFFICES ASSUME BatchInv, NEW r \in Runs, NEW w \in run[r].confirmed
               PROVE  LET n == run[r].nonce[w] + 1 IN
                         n <= mined[w] /\ ledger[w][n].tx = Mint(r) /\ ledger[w][n].ok
    BY DEF HonestReport
  <2>1. Good(run[r]) /\ w \in run[r].got
    BY DEF BatchInv, Good, Honest
  <2>. QED
    BY <2>1 DEF Good, Honest, Mint, MintOf
<1>. QED
  BY <1>1, BatchInvHolds, PTL

(* A fee that is charged was worked out by networkCostOf from executed      *)
(* mints of the collection, one of which at least has landed: nothing       *)
(* confirmed, nothing charged.  Reverted mints beside it are in the sum.    *)
THEOREM FeesAreForResults == Spec => []FeeOnlyForResult
<1>1. BatchInv => FeeOnlyForResult
  BY DEF BatchInv
<1>. QED
  BY <1>1, BatchInvHolds, PTL

(* payServiceFee charges for one executed mint twice only where a purchase  *)
(* had signed it before another's transaction was taken at that nonce: no   *)
(* fee is charged again by a later round or press.                          *)
THEOREM ChargedOnceSafe == Spec => []ChargedOnce
<1>1. BatchInv => ChargedOnce
  <2> SUFFICES ASSUME BatchInv, NEW r \in Runs, NEW s \in Runs, NEW m \in Bills(r) \cap Bills(s), r # s
               PROVE  m[1] \in run[r].beaten \cup run[s].beaten
    BY DEF ChargedOnce
  <2>1. PICK w \in run[r].got : m = <<w, run[r].nonce[w]>>
    BY DEF Bills, Billed
  <2>2. PICK v \in run[s].got : m = <<v, run[s].nonce[v]>>
    BY DEF Bills, Billed
  <2>3. v = w /\ run[s].nonce[w] = run[r].nonce[w] /\ m[1] = w
    BY <2>1, <2>2
  <2>4. Good(run[r]) /\ Good(run[s])
    BY DEF BatchInv
  <2>5. w \in Wallets
    BY <2>1, <2>4 DEF Good, Shape, RunTypes
  <2>6. run[r].told[w] = "accepted" /\ run[s].told[w] = "accepted"
    BY <2>1, <2>2, <2>3, <2>4 DEF Good, Shape
  <2>. QED
    BY <2>3, <2>5, <2>6 DEF BatchInv, Once
<1>. QED
  BY <1>1, BatchInvHolds, PTL

(* submitOne counts "nonce too low" and "already known" as accepted: what   *)
(* is accepted is in the wallet's ledger, unless another transaction, late  *)
(* ones included, was taken between the reading of the nonce and the answer.*)
THEOREM AcceptedReachedSafe == Spec => []AcceptedReached
<1>1. BatchInv => AcceptedReached
  <2> SUFFICES ASSUME BatchInv, NEW r \in Runs, NEW w \in Wallets, run[r].told[w] = "accepted",
                      w \notin run[r].beaten
               PROVE  Known(w, run[r].nonce[w], Mint(r))
    BY DEF AcceptedReached
  <2>1. Good(run[r])
    BY DEF BatchInv
  <2>2. HasNonce(run[r], w)
    BY <2>1 DEF Good, Shape
  <2>3. Known(w, run[r].nonce[w], MintOf(run[r]))
    BY <2>1, <2>2 DEF Good, Reached
  <2>. QED
    BY <2>3 DEF Mint, MintOf
<1>. QED
  BY <1>1, BatchInvHolds, PTL
=============================================================================
