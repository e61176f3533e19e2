-------------------------- MODULE HuntRoundsProofs --------------------------
(***************************************************************************)
(* What holds of HuntRounds for any number of requests, accounts and        *)
(* collections, and for every cap.  Everything about the locals of one       *)
(* request is one predicate of that record, Good, which each step of the     *)
(* round preserves; exclusion and memory relate the requests to the lock     *)
(* and to the history.                                                       *)
(***************************************************************************)
EXTENDS HuntRounds, FiniteSetTheorems, TLAPS

SentIn(q) == {c \in Collections : q.found[c] \in Sent}

(* The locals of one request between two awaits. *)
Shape(q) ==
    /\ q.step \in {"billing", "mint"} <=> q.now # NoCollection
    /\ q.unsaved # {} => q.step = "record" /\ q.todo = {}

(* What is still to be looked at has no outcome yet, so each purchase adds   *)
(* one collection to what was sent.                                          *)
Ahead(q) ==
    /\ q.step \in {"idle", "sample"} => \A c \in Collections : q.found[c] = "unseen"
    /\ \A c \in q.todo : q.found[c] = "unseen"
    /\ q.now # NoCollection => q.found[q.now] = "unseen" /\ q.now \notin q.todo

(* The counter is exact, and below the cap whenever a purchase is under way. *)
Counted(q) ==
    /\ q.count = Cardinality(SentIn(q))
    /\ q.count <= MaxMintsPerCycle
    /\ q.step \in {"billing", "mint"} => q.count < MaxMintsPerCycle

Good(q) == q \in RoundTypes /\ Shape(q) /\ Ahead(q) /\ Counted(q)

HistoryType ==
    /\ history \in [Accounts -> [Collections -> Rows]]
    /\ lookUps \subseteq LookUps

(* The inductive invariant of TypeOK and CapHeld. *)
LoopInv ==
    /\ lock \in BOOLEAN
    /\ round \in [Requests -> RoundTypes]
    /\ HistoryType
    /\ rounds \in Nat
    /\ \A r \in Requests : Good(round[r])

----------------------------------------------------------------------------
(* A round that has not begun, or has ended, has nothing in its locals.      *)
LEMMA NewIsGood ==
    ASSUME NEW a \in Accounts, NEW s \in {"idle", "sample"}
    PROVE  Good([NewRound(a) EXCEPT !.step = s])
<1> DEFINE n == [NewRound(a) EXCEPT !.step = s]
<1>1. n = [step |-> s, who |-> a, todo |-> {}, now |-> NoCollection,
           found |-> [c \in Collections |-> "unseen"], count |-> 0,
           unsaved |-> {}, lost |-> {}]
  BY DEF NewRound
<1>2. n \in RoundTypes
  BY <1>1 DEF RoundTypes, Steps, Outcomes
<1>3. Shape(n) /\ Ahead(n)
  BY <1>1, HuntRoundsAssumption DEF Shape, Ahead
<1>4. SentIn(n) = {}
  BY <1>1 DEF SentIn, Sent
<1>5. Counted(n)
  BY <1>1, <1>4, FS_EmptySet, HuntRoundsAssumption DEF Counted
<1>6. QED
  BY <1>2, <1>3, <1>5 DEF Good

(* NewRound itself is the idle one. *)
LEMMA IdleIsGood ==
    ASSUME NEW a \in Accounts
    PROVE  Good(NewRound(a))
<1>1. NewRound(a) = [NewRound(a) EXCEPT !.step = "idle"]
  BY DEF NewRound
<1>2. Good([NewRound(a) EXCEPT !.step = "idle"])
  BY NewIsGood
<1>3. QED
  BY <1>1, <1>2

(* Sample: a shortlist of collections without outcomes. *)
LEMMA SampleIsGood ==
    ASSUME NEW q, Good(q), q.step = "sample", NEW list \in SUBSET Collections
    PROVE  Good([q EXCEPT !.step = "inspect", !.todo = list])
<1> DEFINE n == [q EXCEPT !.step = "inspect", !.todo = list]
<1>1. q \in RoundTypes
  BY DEF Good
<1>2. n \in RoundTypes /\ n.step = "inspect" /\ n.todo = list /\ n.now = q.now
      /\ n.found = q.found /\ n.count = q.count /\ n.unsaved = q.unsaved
  BY <1>1 DEF RoundTypes, Steps
<1> HIDE DEF n
<1>3. q.now = NoCollection /\ q.unsaved = {}
  BY DEF Good, Shape
<1>4. Shape(n) /\ Ahead(n)
  BY <1>2, <1>3 DEF Shape, Ahead, Good
<1>5. SentIn(n) = SentIn(q)
  BY <1>2 DEF SentIn
<1>6. Counted(n)
  BY <1>2, <1>5 DEF Counted, Good
<1>7. QED
  BY <1>2, <1>4, <1>6 DEF Good, n

(* Inspect, when the collection gets its outcome without being bought. *)
LEMMA PassOverIsGood ==
    ASSUME NEW q, Good(q), q.step = "inspect", NEW c \in q.todo,
           NEW o \in Scored \cup {"capped"}
    PROVE  Good([q EXCEPT !.todo = @ \ {c}, !.found[c] = o])
<1> DEFINE n == [q EXCEPT !.todo = @ \ {c}, !.found[c] = o]
<1>1. q \in RoundTypes /\ c \in Collections /\ o \in Outcomes /\ o \notin Sent
  BY DEF Good, RoundTypes, Outcomes, Scored, Passed, Sent
<1>2. /\ n \in RoundTypes /\ n.step = "inspect" /\ n.todo = q.todo \ {c}
      /\ n.now = q.now /\ n.found = [q.found EXCEPT ![c] = o]
      /\ n.count = q.count /\ n.unsaved = q.unsaved
  BY <1>1 DEF RoundTypes
<1>3. q.found \in [Collections -> Outcomes] /\ q.todo \subseteq Collections
  BY <1>1 DEF RoundTypes
<1> HIDE DEF n
<1>4. q.now = NoCollection /\ q.unsaved = {}
  BY DEF Good, Shape
<1>5. Shape(n)
  BY <1>2, <1>4 DEF Shape
<1>6. Ahead(n)
  BY <1>2, <1>3, <1>4 DEF Ahead, Good
<1>7. SentIn(n) = SentIn(q)
  <2>1. q.found[c] \notin Sent
    BY DEF Good, Ahead, Sent
  <2>2. QED
    BY <1>1, <1>2, <1>3, <2>1 DEF SentIn
<1>8. Counted(n)
  BY <1>2, <1>7 DEF Counted, Good
<1>9. QED
  BY <1>2, <1>5, <1>6, <1>8 DEF Good, n

(* Inspect, when the collection is going to be bought. *)
LEMMA PickIsGood ==
    ASSUME NEW q, Good(q), q.step = "inspect", NEW c \in q.todo,
           q.count < MaxMintsPerCycle
    PROVE  Good([q EXCEPT !.todo = @ \ {c}, !.step = "billing", !.now = c])
<1> DEFINE n == [q EXCEPT !.todo = @ \ {c}, !.step = "billing", !.now = c]
<1>1. q \in RoundTypes /\ c \in Collections /\ c # NoCollection
  BY HuntRoundsAssumption DEF Good, RoundTypes
<1>2. /\ n \in RoundTypes /\ n.step = "billing" /\ n.todo = q.todo \ {c}
      /\ n.now = c /\ n.found = q.found
      /\ n.count = q.count /\ n.unsaved = q.unsaved
  BY <1>1 DEF RoundTypes, Steps
<1> HIDE DEF n
<1>3. q.unsaved = {}
  BY DEF Good, Shape
<1>4. Shape(n)
  BY <1>1, <1>2, <1>3 DEF Shape
<1>5. Ahead(n)
  BY <1>2 DEF Ahead, Good
<1>6. SentIn(n) = SentIn(q)
  BY <1>2 DEF SentIn
<1>7. Counted(n)
  BY <1>2, <1>6 DEF Counted, Good
<1>8. QED
  BY <1>2, <1>4, <1>5, <1>7 DEF Good, n

(* LoadBilling. *)
LEMMA BillingIsGood ==
    ASSUME NEW q, Good(q), q.step = "billing"
    PROVE  Good([q EXCEPT !.step = "mint"])
<1> DEFINE n == [q EXCEPT !.step = "mint"]
<1>1. q \in RoundTypes
  BY DEF Good
<1>2. /\ n \in RoundTypes /\ n.step = "mint" /\ n.todo = q.todo
      /\ n.now = q.now /\ n.found = q.found
      /\ n.count = q.count /\ n.unsaved = q.unsaved
  BY <1>1 DEF RoundTypes, Steps
<1> HIDE DEF n
<1>3. Shape(n) /\ Ahead(n)
  BY <1>2 DEF Shape, Ahead, Good
<1>4. SentIn(n) = SentIn(q)
  BY <1>2 DEF SentIn
<1>5. Counted(n)
  BY <1>2, <1>4 DEF Counted, Good
<1>6. QED
  BY <1>2, <1>3, <1>5 DEF Good, n

(* Mint: the counter and what was sent grow together, by at most one. *)
LEMMA MintIsGood ==
    ASSUME NEW q, Good(q), q.step = "mint", NEW o \in {"refused"} \cup Sent
    PROVE  Good([q EXCEPT !.step = "inspect", !.now = NoCollection,
                          !.found[q.now] = o,
                          !.count = IF Counts(o) THEN @ + 1 ELSE @])
<1> DEFINE n == [q EXCEPT !.step = "inspect", !.now = NoCollection,
                          !.found[q.now] = o,
                          !.count = IF Counts(o) THEN @ + 1 ELSE @]
           k == IF o \in Sent THEN q.count + 1 ELSE q.count
<1>1. q \in RoundTypes /\ q.now # NoCollection /\ q.unsaved = {}
  BY DEF Good, Shape
<1>2. q.now \in Collections /\ q.count \in Nat /\ k \in Nat
      /\ q.found \in [Collections -> Outcomes]
  BY <1>1 DEF RoundTypes
<1>3. o \in Outcomes
  BY DEF Outcomes, Passed
<1>4. n = [q EXCEPT !.step = "inspect", !.now = NoCollection,
                    !.found = [q.found EXCEPT ![q.now] = o], !.count = k]
  BY <1>1 DEF Counts, RoundTypes
<1>5. /\ n \in RoundTypes /\ n.step = "inspect" /\ n.todo = q.todo
      /\ n.now = NoCollection /\ n.found = [q.found EXCEPT ![q.now] = o]
      /\ n.count = k /\ n.unsaved = q.unsaved
  <2> HIDE DEF k
  <2>1. [q.found EXCEPT ![q.now] = o] \in [Collections -> Outcomes]
    BY <1>2, <1>3
  <2>2. QED
    BY <1>1, <1>2, <1>4, <2>1 DEF RoundTypes, Steps
<1> HIDE DEF n
<1>6. Shape(n)
  BY <1>1, <1>5 DEF Shape
<1>7. q.found[q.now] = "unseen" /\ q.now \notin q.todo
      /\ \A c \in q.todo : q.found[c] = "unseen"
  BY <1>1 DEF Good, Ahead
<1>8. Ahead(n)
  BY <1>1, <1>2, <1>5, <1>7 DEF Ahead, RoundTypes
<1>9. q.count = Cardinality(SentIn(q)) /\ q.count < MaxMintsPerCycle
  BY DEF Good, Counted
<1>10. IsFiniteSet(SentIn(q)) /\ q.now \notin SentIn(q)
  <2>1. SentIn(q) \subseteq Collections
    BY DEF SentIn
  <2>2. q.now \notin SentIn(q)
    BY <1>7 DEF SentIn, Sent
  <2>3. QED
    BY <2>1, <2>2, FS_Subset, HuntRoundsAssumption
<1>11. Cardinality(SentIn(n)) = k
  <2>1. CASE o \in Sent
    <3>1. SentIn(n) = SentIn(q) \cup {q.now}
      BY <1>2, <1>5, <2>1 DEF SentIn
    <3>2. QED
      BY <1>9, <1>10, <2>1, <3>1, FS_AddElement
  <2>2. CASE o \notin Sent
    <3>1. SentIn(n) = SentIn(q)
      BY <1>2, <1>5, <1>10, <2>2 DEF SentIn
    <3>2. QED
      BY <1>9, <2>2, <3>1
  <2>3. QED
    BY <2>1, <2>2
<1>12. Counted(n)
  BY <1>2, <1>5, <1>9, <1>11, HuntRoundsAssumption DEF Counted
<1>13. QED
  BY <1>5, <1>6, <1>8, <1>12 DEF Good, n

(* LoopEnds: what is worth keeping is put, and nothing else changes. *)
LEMMA LoopEndsIsGood ==
    ASSUME NEW q, Good(q), q.step = "inspect", q.todo = {},
           NEW keep \in SUBSET Collections
    PROVE  Good([q EXCEPT !.step = "record", !.unsaved = keep])
<1> DEFINE n == [q EXCEPT !.step = "record", !.unsaved = keep]
<1>1. q \in RoundTypes /\ q.now = NoCollection
  BY DEF Good, Shape
<1>2. /\ n \in RoundTypes /\ n.step = "record" /\ n.todo = {}
      /\ n.now = NoCollection /\ n.found = q.found /\ n.count = q.count
  BY <1>1 DEF RoundTypes, Steps
<1> HIDE DEF n
<1>3. Shape(n) /\ Ahead(n)
  BY <1>2 DEF Shape, Ahead
<1>4. SentIn(n) = SentIn(q)
  BY <1>2 DEF SentIn
<1>5. Counted(n)
  BY <1>2, <1>4 DEF Counted, Good
<1>6. QED
  BY <1>2, <1>3, <1>5 DEF Good, n

(* Record: one put less is under way. *)
LEMMA RecordIsGood ==
    ASSUME NEW q, Good(q), q.step = "record", NEW c \in q.unsaved, NEW fails \in BOOLEAN
    PROVE  Good([q EXCEPT !.unsaved = @ \ {c},
                          !.lost = IF fails THEN @ \cup {c} ELSE @])
<1> DEFINE l == IF fails THEN q.lost \cup {c} ELSE q.lost
           n == [q EXCEPT !.unsaved = @ \ {c},
                          !.lost = IF fails THEN @ \cup {c} ELSE @]
<1>1. q \in RoundTypes /\ q.now = NoCollection /\ q.todo = {}
  BY DEF Good, Shape
<1>2. l \in SUBSET Collections
  BY <1>1 DEF RoundTypes
<1>3. n = [q EXCEPT !.unsaved = q.unsaved \ {c}, !.lost = l]
  BY <1>1 DEF RoundTypes
<1>4. /\ n \in RoundTypes /\ n.step = "record" /\ n.todo = {}
      /\ n.now = NoCollection /\ n.found = q.found /\ n.count = q.count
  <2> HIDE DEF l
  <2>1. QED
    BY <1>1, <1>2, <1>3 DEF RoundTypes
<1> HIDE DEF n
<1>5. Shape(n) /\ Ahead(n)
  BY <1>4 DEF Shape, Ahead
<1>6. SentIn(n) = SentIn(q)
  BY <1>4 DEF SentIn
<1>7. Counted(n)
  BY <1>4, <1>6 DEF Counted, Good
<1>8. QED
  BY <1>4, <1>5, <1>7 DEF Good, n

(* A put that is undone is lost, which concerns nothing else in the locals.  *)
LEMMA UndoneIsGood ==
    ASSUME NEW q, Good(q), NEW gone \in SUBSET Collections
    PROVE  Good([q EXCEPT !.lost = @ \cup gone])
<1> DEFINE n == [q EXCEPT !.lost = @ \cup gone]
<1>1. q \in RoundTypes
  BY DEF Good
<1>2. /\ n \in RoundTypes /\ n.step = q.step /\ n.todo = q.todo /\ n.now = q.now
      /\ n.found = q.found /\ n.count = q.count /\ n.unsaved = q.unsaved
  BY <1>1 DEF RoundTypes
<1> HIDE DEF n
<1>3. Shape(n) /\ Ahead(n)
  BY <1>2 DEF Shape, Ahead, Good
<1>4. SentIn(n) = SentIn(q)
  BY <1>2 DEF SentIn
<1>5. Counted(n)
  BY <1>2, <1>4 DEF Counted, Good
<1>6. QED
  BY <1>2, <1>3, <1>5 DEF Good, n

(* A writer beside the rounds changes nothing of them but what they lost.    *)
LEMMA UndoesMoves ==
    ASSUME round \in [Requests -> RoundTypes], NEW a, NEW gone, Undoes(a, gone)
    PROVE  \A s \in Requests :
              /\ round'[s].step = round[s].step /\ round'[s].who = round[s].who
              /\ round'[s].found = round[s].found /\ round'[s].unsaved = round[s].unsaved
              /\ round[s].lost \subseteq round'[s].lost
              /\ round[s].step = "record" /\ round[s].who = a =>
                    gone \ round[s].unsaved \subseteq round'[s].lost
<1> TAKE s \in Requests
<1>1. round[s] \in RoundTypes
  OBVIOUS
<1>2. round'[s] = IF round[s].step = "record" /\ round[s].who = a
                  THEN [round[s] EXCEPT !.lost = @ \cup (gone \ round[s].unsaved)]
                  ELSE round[s]
  BY DEF Undoes
<1>3. QED
  BY <1>1, <1>2 DEF RoundTypes

(* And they stay good. *)
LEMMA UndoesKeepsLoop ==
    ASSUME round \in [Requests -> RoundTypes], \A s \in Requests : Good(round[s]),
           NEW a, NEW gone \in SUBSET Collections, Undoes(a, gone)
    PROVE  /\ round' \in [Requests -> RoundTypes]
           /\ \A s \in Requests : Good(round'[s])
<1>1. \A s \in Requests : Good(round'[s])
  <2> TAKE s \in Requests
  <2>1. Good([round[s] EXCEPT !.lost = @ \cup (gone \ round[s].unsaved)])
    BY UndoneIsGood
  <2>2. QED
    BY <2>1 DEF Undoes
<1>2. \A s \in Requests : round'[s] \in RoundTypes
  BY <1>1 DEF Good
<1>3. QED
  BY <1>1, <1>2 DEF Undoes

(* A row stays a row. *)
LEMMA MergedIsRow ==
    ASSUME NEW old \in Rows, NEW o \in Outcomes
    PROVE  Merged(old, o) \in Rows
BY DEF Merged, Rows, NoRow

(* One request's locals are replaced by good ones. *)
LEMMA SetKeepsLoop ==
    ASSUME round \in [Requests -> RoundTypes], \A s \in Requests : Good(round[s]),
           NEW r \in Requests, NEW n, Good(n), Set(r, n)
    PROVE  /\ round' \in [Requests -> RoundTypes]
           /\ \A s \in Requests : Good(round'[s])
           /\ round'[r] = n
           /\ \A s \in Requests : s # r => round'[s] = round[s]
<1>1. n \in RoundTypes
  BY DEF Good
<1>2. round' = [round EXCEPT ![r] = n]
  BY DEF Set
<1>3. round'[r] = n /\ \A s \in Requests : s # r => round'[s] = round[s]
  BY <1>2
<1>4. \A s \in Requests : Good(round'[s])
  BY <1>3
<1>5. QED
  BY <1>1, <1>2, <1>3, <1>4

----------------------------------------------------------------------------
(* The locals of all requests start good. *)
LEMMA LoopInit == Init => LoopInv
<1> SUFFICES ASSUME Init PROVE LoopInv
  OBVIOUS
<1>1. \A r \in Requests : Good(round[r])
  <2> TAKE r \in Requests
  <2>1. PICK a \in Accounts : round[r] = NewRound(a)
    BY DEF Init
  <2>2. QED
    BY <2>1, IdleIsGood
<1>2. round \in [Requests -> RoundTypes]
  BY <1>1 DEF Init, Good
<1>3. HistoryType
  BY DEF Init, HistoryType, NoRow, Rows, LookUps
<1>4. QED
  BY <1>1, <1>2, <1>3 DEF Init, LoopInv

(* Every step of every request keeps the invariant of the loop. *)
LEMMA LoopStep == LoopInv /\ [Next]_vars => LoopInv'
<1> SUFFICES ASSUME LoopInv, [Next]_vars PROVE LoopInv'
  OBVIOUS
<1> DEFINE RoundsGood == /\ round' \in [Requests -> RoundTypes]
                         /\ \A s \in Requests : Good(round'[s])
           Rest == lock' \in BOOLEAN /\ HistoryType' /\ rounds' \in Nat
<1>a. /\ lock \in BOOLEAN /\ HistoryType /\ rounds \in Nat
      /\ round \in [Requests -> RoundTypes]
      /\ \A s \in Requests : Good(round[s])
  BY DEF LoopInv
<1>b. SUFFICES RoundsGood /\ Rest
  BY DEF LoopInv
<1>1. ASSUME NEW r \in Requests, NEW a \in Accounts, Request(r, a)
      PROVE  RoundsGood /\ Rest
  <2>1. Good([NewRound(a) EXCEPT !.step = "sample"])
    BY NewIsGood
  <2>2. RoundsGood
    BY <1>a, <1>1, <2>1, SetKeepsLoop DEF Request
  <2>3. Rest
    BY <1>a, <1>1 DEF Request, HistoryType
  <2>4. QED
    BY <2>2, <2>3
<1>2. ASSUME NEW r \in Requests, Throw(r) \/ Answer(r)
      PROVE  RoundsGood /\ Rest
  <2>1. round[r].who \in Accounts
    BY <1>a DEF RoundTypes
  <2>2. Good(NewRound(round[r].who))
    BY <2>1, IdleIsGood
  <2>3. RoundsGood
    BY <1>a, <1>2, <2>2, SetKeepsLoop DEF Throw, Answer
  <2>4. Rest
    BY <1>a, <1>2 DEF Throw, Answer, Unlock, HistoryType
  <2>5. QED
    BY <2>3, <2>4
<1>3. ASSUME NEW r \in Requests, Sample(r)
      PROVE  RoundsGood /\ Rest
  <2>1. PICK list \in SUBSET Collections :
            Set(r, [round[r] EXCEPT !.step = "inspect", !.todo = list])
    BY <1>3 DEF Sample
  <2>2. Good([round[r] EXCEPT !.step = "inspect", !.todo = list])
    BY <1>a, <1>3, SampleIsGood DEF Sample
  <2>3. RoundsGood
    BY <1>a, <2>1, <2>2, SetKeepsLoop
  <2>4. Rest
    BY <1>a, <1>3 DEF Sample, HistoryType
  <2>5. QED
    BY <2>3, <2>4
<1>4. ASSUME NEW r \in Requests, Inspect(r)
      PROVE  RoundsGood /\ Rest
  <2> DEFINE Over(c, o) == [round[r] EXCEPT !.todo = @ \ {c}, !.found[c] = o]
             Picked(c) == [round[r] EXCEPT !.todo = @ \ {c}, !.step = "billing", !.now = c]
  <2>1. PICK c \in round[r].todo :
            \/ \E o \in Scored \cup {"capped"} : Set(r, Over(c, o))
            \/ ~AtCap(r) /\ Set(r, Picked(c))
    BY <1>4 DEF Inspect
  <2>2. Good(round[r]) /\ round[r].step = "inspect"
    BY <1>a, <1>4 DEF Inspect
  <2>3. ASSUME NEW o \in Scored \cup {"capped"}, Set(r, Over(c, o))
        PROVE  RoundsGood
    <3>1. Good(Over(c, o))
      BY <2>2, PassOverIsGood
    <3>2. QED
      BY <1>a, <2>3, <3>1, SetKeepsLoop
  <2>4. ASSUME ~AtCap(r), Set(r, Picked(c))
        PROVE  RoundsGood
    <3>1. round[r].count < MaxMintsPerCycle
      BY <1>a, <2>4, HuntRoundsAssumption DEF AtCap, RoundTypes
    <3>2. Good(Picked(c))
      BY <2>2, <3>1, PickIsGood
    <3>3. QED
      BY <1>a, <2>4, <3>2, SetKeepsLoop
  <2>5. RoundsGood
    BY <2>1, <2>3, <2>4
  <2>6. Rest
    BY <1>a, <1>4 DEF Inspect, HistoryType
  <2>7. QED
    BY <2>5, <2>6
<1>5. ASSUME NEW r \in Requests, LoadBilling(r)
      PROVE  RoundsGood /\ Rest
  <2>1. Good([round[r] EXCEPT !.step = "mint"])
    BY <1>a, <1>5, BillingIsGood DEF LoadBilling
  <2>2. RoundsGood
    BY <1>a, <1>5, <2>1, SetKeepsLoop DEF LoadBilling
  <2>3. Rest
    BY <1>a, <1>5 DEF LoadBilling, HistoryType
  <2>4. QED
    BY <2>2, <2>3
<1>6. ASSUME NEW r \in Requests, Mint(r)
      PROVE  RoundsGood /\ Rest
  <2> DEFINE After(o) == [round[r] EXCEPT !.step = "inspect", !.now = NoCollection,
                                          !.found[round[r].now] = o,
                                          !.count = IF Counts(o) THEN @ + 1 ELSE @]
  <2>1. PICK o \in {"refused"} \cup Sent : Set(r, After(o))
    BY <1>6 DEF Mint
  <2>2. Good(After(o))
    BY <1>a, <1>6, MintIsGood DEF Mint
  <2>3. RoundsGood
    BY <1>a, <2>1, <2>2, SetKeepsLoop
  <2>4. Rest
    BY <1>a, <1>6 DEF Mint, HistoryType
  <2>5. QED
    BY <2>3, <2>4
<1>7. ASSUME NEW r \in Requests, LoopEnds(r)
      PROVE  RoundsGood /\ Rest
  <2>1. WorthKeeping(round[r].found) \in SUBSET Collections
    BY DEF WorthKeeping
  <2>2. Good([round[r] EXCEPT !.step = "record", !.unsaved = WorthKeeping(round[r].found)])
    BY <1>a, <1>7, <2>1, LoopEndsIsGood DEF LoopEnds
  <2>3. RoundsGood
    BY <1>a, <1>7, <2>2, SetKeepsLoop DEF LoopEnds
  <2>4. Rest
    BY <1>a, <1>7 DEF LoopEnds, HistoryType
  <2>5. QED
    BY <2>3, <2>4
<1>8. ASSUME NEW r \in Requests, Record(r)
      PROVE  RoundsGood /\ Rest
  <2> DEFINE Saved(c, fails) == [round[r] EXCEPT !.unsaved = @ \ {c},
                                   !.lost = IF fails THEN @ \cup {c} ELSE @]
             Row(c, old) == Merged(old, round[r].found[c])
  <2>1. PICK c \in round[r].unsaved, fails \in BOOLEAN :
            /\ Set(r, Saved(c, fails))
            /\ \/ \E old \in {history[round[r].who][c], NoRow} :
                     history' = [history EXCEPT ![round[r].who][c] = Row(c, old)]
               \/ UNCHANGED history
    BY <1>8 DEF Record
  <2>2. Good(Saved(c, fails))
    BY <1>a, <1>8, RecordIsGood DEF Record
  <2>3. RoundsGood
    BY <1>a, <2>1, <2>2, SetKeepsLoop
  <2>4. c \in Collections /\ round[r].who \in Accounts /\ round[r].found[c] \in Outcomes
    BY <1>a DEF RoundTypes
  <2>5. \A old \in {history[round[r].who][c], NoRow} : Row(c, old) \in Rows
    <3>1. history[round[r].who][c] \in Rows /\ NoRow \in Rows
      BY <1>a, <2>4 DEF HistoryType, Rows, NoRow
    <3>2. QED
      BY <2>4, <3>1, MergedIsRow
  <2>6. HistoryType'
    <3> HIDE DEF Row
    <3>1. lookUps' = lookUps
      BY <1>8 DEF Record
    <3>2. QED
      BY <1>a, <2>1, <2>4, <2>5, <3>1 DEF HistoryType
  <2>7. lock' \in BOOLEAN /\ rounds' \in Nat
    BY <1>a, <1>8 DEF Record
  <2>8. QED
    BY <2>3, <2>6, <2>7
<1>9. ASSUME NEW a \in Accounts, Clear(a)
      PROVE  RoundsGood /\ Rest
  <2>1. RoundsGood
    BY <1>a, <1>9, UndoesKeepsLoop DEF Clear
  <2>2. NoRow \in Rows
    BY DEF NoRow, Rows
  <2>3. Rest
    BY <1>a, <1>9, <2>2 DEF Clear, HistoryType
  <2>4. QED
    BY <2>1, <2>3
<1>10. ASSUME NEW a \in Accounts, NEW c \in Collections, List(a, c)
       PROVE  RoundsGood /\ Rest
  <2>1. [who |-> a, contract |-> c, row |-> history[a][c]] \in LookUps
    BY <1>a DEF LookUps, HistoryType
  <2>2. Rest
    BY <1>a, <1>10, <2>1 DEF List, HistoryType
  <2>3. RoundsGood
    BY <1>a, <1>10 DEF List
  <2>4. QED
    BY <2>2, <2>3
<1>11. ASSUME NEW l \in lookUps, Update(l)
       PROVE  RoundsGood /\ Rest
  <2>1. l.who \in Accounts /\ l.contract \in Collections /\ l.row \in Rows
    BY <1>a DEF HistoryType, LookUps
  <2>2. RoundsGood
    <3>1. CASE UNCHANGED round
      BY <1>a, <3>1
    <3>2. CASE ~UNCHANGED round
      <4>1. PICK gone \in SUBSET Collections : Undoes(l.who, gone)
        BY <1>11, <2>1, <3>2 DEF Update
      <4>2. QED
        BY <1>a, <4>1, UndoesKeepsLoop
    <3>3. QED
      BY <3>1, <3>2
  <2>3. Rest
    BY <1>a, <1>11, <2>1 DEF Update, HistoryType
  <2>4. QED
    BY <2>2, <2>3
<1>12. CASE UNCHANGED vars
  BY <1>12, <1>a DEF vars, HistoryType
<1>13. QED
  BY <1>1, <1>2, <1>3, <1>4, <1>5, <1>6, <1>7, <1>8, <1>9, <1>10, <1>11, <1>12 DEF Next, Step

(* It says more than the type invariant and the cap. *)
LEMMA LoopImplies == LoopInv => TypeOK /\ CapHeld
<1> SUFFICES ASSUME LoopInv PROVE TypeOK /\ CapHeld
  OBVIOUS
<1>1. \A r \in Requests :
          /\ round[r].step \in {"billing", "mint"} <=> round[r].now # NoCollection
          /\ round[r].count = Cardinality({c \in Collections : round[r].found[c] \in Sent})
          /\ round[r].unsaved # {} => round[r].step = "record" /\ round[r].todo = {}
          /\ round[r].count <= MaxMintsPerCycle
  BY DEF LoopInv, Good, Shape, Counted, SentIn
<1>2. TypeOK
  BY <1>1 DEF LoopInv, HistoryType, TypeOK
<1>3. CapHeld
  BY <1>1 DEF CapHeld
<1>4. QED
  BY <1>2, <1>3

(* The locals, the history and the counter keep their types and fit           *)
(* together, for any requests, accounts and collections.                     *)
THEOREM TypeCorrect == Spec => []TypeOK
<1>1. LoopInv => TypeOK
  BY LoopImplies
<1>2. QED
  BY LoopInit, LoopStep, <1>1, PTL DEF Spec

(* No round sends transactions for more collections than the cap             *)
(* (HUNT_MAX_MINTS_PER_CYCLE, hunt.ts:257), for any cap.                     *)
THEOREM CapSafe == Spec => []CapHeld
<1>1. LoopInv => CapHeld
  BY LoopImplies
<1>2. QED
  BY LoopInit, LoopStep, <1>1, PTL DEF Spec

----------------------------------------------------------------------------
(* A step of a round replaces the locals of a request that is under way and  *)
(* either ends it and gives the lock back, or keeps it under way without      *)
(* touching the lock.                                                        *)
LEMMA StepMoves ==
    ASSUME LoopInv, NEW r \in Requests, Step(r)
    PROVE  /\ round[r].step # "idle"
           /\ \A s \in Requests : s # r => round'[s] = round[s]
           /\ \/ round'[r].step = "idle" /\ lock' = FALSE
              \/ round'[r].step \in {"inspect", "billing", "mint"} /\ lock' = lock
              \/ round'[r].step = "record" /\ lock' = lock /\ (LoopEnds(r) \/ Record(r))
<1> DEFINE q == round[r]
<1>a. round \in [Requests -> RoundTypes] /\ q \in RoundTypes
  BY DEF LoopInv
<1>1. ASSUME NEW n, Set(r, n)
      PROVE  round'[r] = n /\ \A s \in Requests : s # r => round'[s] = round[s]
  BY <1>a, <1>1 DEF Set
<1>2. CASE Throw(r) \/ Answer(r)
  <2>1. Set(r, NewRound(q.who)) /\ q.step # "idle" /\ lock' = FALSE
    BY <1>2 DEF Throw, Answer, Unlock
  <2>2. NewRound(q.who).step = "idle"
    BY DEF NewRound
  <2>3. QED
    BY <1>1, <2>1, <2>2
<1>3. CASE Sample(r)
  <2>1. PICK list \in SUBSET Collections :
            Set(r, [q EXCEPT !.step = "inspect", !.todo = list])
    BY <1>3 DEF Sample
  <2>2. [q EXCEPT !.step = "inspect", !.todo = list].step = "inspect"
    BY <1>a DEF RoundTypes
  <2>3. QED
    BY <1>1, <1>3, <2>1, <2>2 DEF Sample
<1>4. CASE Inspect(r)
  <2> DEFINE Over(c, o) == [q EXCEPT !.todo = @ \ {c}, !.found[c] = o]
             Picked(c) == [q EXCEPT !.todo = @ \ {c}, !.step = "billing", !.now = c]
  <2>1. PICK c \in q.todo :
            \/ \E o \in Scored \cup {"capped"} : Set(r, Over(c, o))
            \/ Set(r, Picked(c))
    BY <1>4 DEF Inspect
  <2>2. q.step = "inspect" /\ lock' = lock
    BY <1>4 DEF Inspect
  <2>3. \A o : Over(c, o).step = "inspect"
    BY <1>a, <2>2 DEF RoundTypes
  <2>4. Picked(c).step = "billing"
    BY <1>a DEF RoundTypes
  <2> HIDE DEF Over, Picked
  <2>5. QED
    BY <1>1, <2>1, <2>2, <2>3, <2>4
<1>5. CASE LoadBilling(r)
  <2>1. [q EXCEPT !.step = "mint"].step = "mint"
    BY <1>a DEF RoundTypes
  <2>2. QED
    BY <1>1, <1>5, <2>1 DEF LoadBilling
<1>6. CASE Mint(r)
  <2> DEFINE After(o) == [q EXCEPT !.step = "inspect", !.now = NoCollection,
                                   !.found[q.now] = o,
                                   !.count = IF Counts(o) THEN @ + 1 ELSE @]
  <2>1. PICK o \in {"refused"} \cup Sent : Set(r, After(o))
    BY <1>6 DEF Mint
  <2>2. q.step = "mint" /\ lock' = lock
    BY <1>6 DEF Mint
  <2>3. After(o).step = "inspect"
    BY <1>a DEF RoundTypes, Counts
  <2> HIDE DEF After
  <2>4. QED
    BY <1>1, <2>1, <2>2, <2>3
<1>7. CASE LoopEnds(r)
  <2>1. [q EXCEPT !.step = "record", !.unsaved = WorthKeeping(q.found)].step = "record"
    BY <1>a DEF RoundTypes
  <2>2. QED
    BY <1>1, <1>7, <2>1 DEF LoopEnds
<1>8. CASE Record(r)
  <2> DEFINE Saved(c, fails) == [q EXCEPT !.unsaved = @ \ {c},
                                   !.lost = IF fails THEN @ \cup {c} ELSE @]
  <2>1. PICK c \in q.unsaved, fails \in BOOLEAN : Set(r, Saved(c, fails))
    BY <1>8 DEF Record
  <2>2. q.step = "record" /\ lock' = lock
    BY <1>8 DEF Record
  <2>3. Saved(c, fails).step = "record"
    BY <1>a, <2>2 DEF RoundTypes
  <2> HIDE DEF Saved
  <2>4. QED
    BY <1>1, <1>8, <2>1, <2>2, <2>3
<1>9. QED
  BY <1>2, <1>3, <1>4, <1>5, <1>6, <1>7, <1>8 DEF Step

(* A request that gets the lock is the only one that changes. *)
LEMMA RequestMoves ==
    ASSUME LoopInv, NEW r \in Requests, NEW a \in Accounts, Request(r, a)
    PROVE  /\ ~lock /\ lock' = TRUE /\ round'[r].step = "sample"
           /\ \A s \in Requests : s # r => round'[s] = round[s]
           /\ history' = history
<1>1. round \in [Requests -> RoundTypes]
  BY DEF LoopInv
<1>2. QED
  BY <1>1 DEF Request, LockFree, Set, NewRound

(* A step of another writer of the history: no round moves. *)
Beside ==
    \/ \E a \in Accounts : Clear(a) \/ \E c \in Collections : List(a, c)
    \/ \E l \in lookUps : Update(l)

(* What such a step takes from an account's history a round that has put it   *)
(* counts among what it lost.                                                *)
LEMMA BesideMoves ==
    ASSUME LoopInv, Beside
    PROVE  /\ lock' = lock
           /\ \A s \in Requests :
                 /\ round'[s].step = round[s].step /\ round'[s].who = round[s].who
                 /\ round'[s].found = round[s].found /\ round'[s].unsaved = round[s].unsaved
                 /\ round[s].lost \subseteq round'[s].lost
                 /\ round[s].step = "record" =>
                       \A c \in Collections \ (round[s].unsaved \cup round'[s].lost) :
                           history'[round[s].who][c] = history[round[s].who][c]
<1>a. round \in [Requests -> RoundTypes] /\ HistoryType
  BY DEF LoopInv
<1>b. \A s \in Requests : round[s].who \in Accounts
  BY <1>a DEF RoundTypes
<1>1. ASSUME NEW a \in Accounts, Clear(a)
      PROVE  /\ lock' = lock /\ Undoes(a, Collections)
             /\ \A b \in Accounts : b # a => history'[b] = history[b]
  BY <1>a, <1>1 DEF Clear, HistoryType
<1>2. ASSUME NEW l \in lookUps, Update(l)
      PROVE  /\ lock' = lock
             /\ \/ UNCHANGED <<history, round>>
                \/ /\ Undoes(l.who, IF history[l.who][l.contract] = l.row
                                     THEN {} ELSE {l.contract})
                   /\ \A b \in Accounts, c \in Collections :
                         (b = l.who /\ c = l.contract /\ history[b][c] # l.row)
                         \/ history'[b][c] = history[b][c]
  <2>1. l.who \in Accounts /\ l.contract \in Collections
    BY <1>a DEF HistoryType, LookUps
  <2>2. QED
    BY <1>a, <1>2, <2>1 DEF Update, HistoryType
<1>3. CASE \E a \in Accounts : Clear(a)
  <2>1. PICK a \in Accounts : Clear(a)
    BY <1>3
  <2>2. QED
    BY <1>a, <1>b, <1>1, <2>1, UndoesMoves
<1>4. CASE \E a \in Accounts, c \in Collections : List(a, c)
  BY <1>a, <1>4 DEF List
<1>5. CASE \E l \in lookUps : Update(l)
  <2>1. PICK l \in lookUps : Update(l)
    BY <1>5
  <2>2. CASE UNCHANGED <<history, round>>
    BY <1>2, <2>1, <2>2
  <2>3. CASE ~UNCHANGED <<history, round>>
    <3> DEFINE gone == IF history[l.who][l.contract] = l.row THEN {} ELSE {l.contract}
    <3>1. Undoes(l.who, gone) /\ lock' = lock
      BY <1>2, <2>1, <2>3
    <3>2. \A b \in Accounts, c \in Collections :
              (b = l.who /\ c \in gone) \/ history'[b][c] = history[b][c]
      <4>1. \A b \in Accounts, c \in Collections :
                (b = l.who /\ c = l.contract /\ history[b][c] # l.row)
                \/ history'[b][c] = history[b][c]
        BY <1>2, <2>1, <2>3
      <4>2. history[l.who][l.contract] # l.row => l.contract \in gone
        OBVIOUS
      <4> HIDE DEF gone
      <4>3. QED
        BY <4>1, <4>2
    <3> HIDE DEF gone
    <3>3. QED
      BY <1>a, <1>b, <3>1, <3>2, UndoesMoves
  <2>4. QED
    BY <2>2, <2>3
<1>6. QED
  BY <1>3, <1>4, <1>5 DEF Beside

(* The lock is held exactly while one round is under way. *)
LEMMA OneRoundStep == LoopInv /\ OneRound /\ [Next]_vars => OneRound'
<1> SUFFICES ASSUME LoopInv, OneRound, [Next]_vars PROVE OneRound'
  OBVIOUS
<1>1. ASSUME NEW r \in Requests, Step(r)
      PROVE  OneRound'
  <2>1. \A s \in Requests : s # r => round'[s].step = "idle"
    BY <1>1, StepMoves DEF OneRound, Active
  <2>2. lock' <=> round'[r].step # "idle"
    BY <1>1, StepMoves DEF OneRound, Active
  <2>3. QED
    BY <2>1, <2>2 DEF OneRound, Active
<1>2. ASSUME NEW r \in Requests, NEW a \in Accounts, Request(r, a)
      PROVE  OneRound'
  BY <1>2, RequestMoves DEF OneRound, Active
<1>3. CASE Beside
  BY <1>3, BesideMoves DEF OneRound, Active
<1>4. CASE UNCHANGED vars
  BY <1>4 DEF vars, OneRound, Active
<1>5. QED
  BY <1>1, <1>2, <1>3, <1>4 DEF Next, Beside

(* Two hunt rounds never overlap, whatever was thrown before                  *)
(* (withSingleFlight, ratelimit.ts:141), for any number of requests.         *)
THEOREM RoundsExclude == Spec => []OneRound
<1>1. Init => OneRound
  <2> SUFFICES ASSUME Init PROVE OneRound
    OBVIOUS
  <2>1. \A r \in Requests : ~Active(r)
    BY DEF Init, Active, NewRound
  <2>2. QED
    BY <2>1 DEF Init, OneRound
<1>2. QED
  BY LoopInit, LoopStep, OneRoundStep, <1>1, PTL DEF Spec

----------------------------------------------------------------------------
RowOf(outcome) == [passed |-> TRUE, minted |-> IF outcome = "bought" THEN "some" ELSE "zero"]

(* While the puts of a round run, every collection it sent for is put        *)
(* already, still being put, or lost.                                        *)
Kept(r) ==
    round[r].step = "record" =>
        \A c \in Collections \ (round[r].unsaved \cup round[r].lost) :
            round[r].found[c] \in Sent =>
                history[round[r].who][c] = RowOf(round[r].found[c])

RecordInv == LoopInv /\ OneRound /\ \A r \in Requests : Kept(r)

(* The round under way puts each collection once, and what another writer     *)
(* takes from the history is lost, so what it has put stays until it answers. *)
LEMMA RecordStep == RecordInv /\ [Next]_vars => RecordInv'
<1> SUFFICES ASSUME RecordInv, [Next]_vars PROVE \A s \in Requests : Kept(s)'
  BY LoopStep, OneRoundStep DEF RecordInv
<1>a. LoopInv /\ OneRound /\ (\A s \in Requests : Kept(s))
      /\ round \in [Requests -> RoundTypes] /\ HistoryType
  BY DEF RecordInv, LoopInv
<1>1. ASSUME NEW r \in Requests, NEW a \in Accounts, Request(r, a)
      PROVE  \A s \in Requests : Kept(s)'
  BY <1>a, <1>1, RequestMoves DEF Kept
<1>2. ASSUME NEW r \in Requests, Step(r)
      PROVE  \A s \in Requests : Kept(s)'
  <2>1. \A s \in Requests : s # r => round'[s].step # "record"
    BY <1>a, <1>2, StepMoves DEF OneRound, Active
  <2>2. CASE round'[r].step # "record"
    BY <2>1, <2>2 DEF Kept
  <2>3. CASE LoopEnds(r)
    <3>1. /\ round'[r].unsaved = WorthKeeping(round[r].found)
          /\ round'[r].found = round[r].found
      BY <1>a, <2>3 DEF LoopEnds, Set, RoundTypes
    <3>2. \A c \in Collections : round'[r].found[c] \in Sent => c \in round'[r].unsaved
      BY <3>1 DEF WorthKeeping, Passed
    <3>3. QED
      BY <2>1, <3>2 DEF Kept
  <2>4. CASE Record(r)
    <3> DEFINE q == round[r]
               Saved(c, fails) == [q EXCEPT !.unsaved = @ \ {c},
                                     !.lost = IF fails THEN @ \cup {c} ELSE @]
    <3>1. PICK c \in q.unsaved, fails \in BOOLEAN :
              /\ Set(r, Saved(c, fails))
              /\ \/ \E old \in {history[q.who][c], NoRow} :
                       history' = [history EXCEPT ![q.who][c] = Merged(old, q.found[c])]
                 \/ fails /\ UNCHANGED history
      BY <2>4 DEF Record
    <3>2. q \in RoundTypes /\ q.step = "record" /\ c \in Collections /\ q.who \in Accounts
      BY <1>a, <2>4 DEF Record, RoundTypes
    <3>3. /\ round'[r].unsaved = q.unsaved \ {c}
          /\ round'[r].lost = IF fails THEN q.lost \cup {c} ELSE q.lost
          /\ round'[r].found = q.found /\ round'[r].who = q.who
      BY <1>a, <3>1, <3>2 DEF Set, RoundTypes
    <3>4. ASSUME NEW d \in Collections, d \notin round'[r].unsaved \cup round'[r].lost,
                 q.found[d] \in Sent
          PROVE  history'[q.who][d] = RowOf(q.found[d])
      <4>1. CASE d = c
        <5>1. ~fails
          BY <3>3, <3>4, <4>1
        <5>2. PICK old \in {history[q.who][c], NoRow} :
                  history' = [history EXCEPT ![q.who][c] = Merged(old, q.found[c])]
          BY <3>1, <5>1
        <5>3. history'[q.who][c] = Merged(old, q.found[c])
          BY <1>a, <3>2, <5>2 DEF HistoryType
        <5>4. Merged(old, q.found[c]) = RowOf(q.found[c])
          BY <3>4, <4>1 DEF Merged, RowOf, Passed
        <5>5. QED
          BY <4>1, <5>3, <5>4
      <4>2. CASE d # c
        <5>1. d \notin q.unsaved \cup q.lost
          BY <3>3, <3>4, <4>2
        <5>2. history[q.who][d] = RowOf(q.found[d])
          BY <1>a, <3>2, <3>4, <5>1 DEF Kept
        <5>3. history'[q.who][d] = history[q.who][d]
          BY <1>a, <3>1, <3>2, <4>2 DEF HistoryType
        <5>4. QED
          BY <5>2, <5>3
      <4>3. QED
        BY <4>1, <4>2
    <3>5. Kept(r)'
      BY <3>3, <3>4 DEF Kept
    <3>6. QED
      BY <2>1, <3>5 DEF Kept
  <2>5. QED
    BY <1>a, <1>2, <2>2, <2>3, <2>4, StepMoves
<1>3. CASE Beside
  <2> TAKE s \in Requests
  <2> SUFFICES ASSUME round[s].step = "record",
                      NEW c \in Collections, c \notin round[s].unsaved \cup round'[s].lost,
                      round[s].found[c] \in Sent
               PROVE  history'[round[s].who][c] = RowOf(round[s].found[c])
    BY <1>a, <1>3, BesideMoves DEF Kept
  <2>1. history'[round[s].who][c] = history[round[s].who][c] /\ c \notin round[s].lost
    BY <1>a, <1>3, BesideMoves
  <2>2. QED
    BY <1>a, <2>1 DEF Kept
<1>4. CASE UNCHANGED vars
  BY <1>a, <1>4 DEF vars, Kept
<1>5. QED
  BY <1>1, <1>2, <1>3, <1>4 DEF Next, Beside

(* A round that answers has put the final outcome of everything it sent       *)
(* transactions for into its account's history (hunt.ts:293), unless the      *)
(* store failed that put or another writer undid it since, for any number of  *)
(* requests, accounts and price look-ups.                                    *)
THEOREM RoundsRemember == Spec => SentIsRemembered
<1>1. Init => RecordInv
  <2> SUFFICES ASSUME Init PROVE RecordInv
    OBVIOUS
  <2>1. \A r \in Requests : round[r].step = "idle"
    BY DEF Init, NewRound
  <2>2. OneRound
    BY <2>1 DEF Init, OneRound, Active
  <2>3. \A r \in Requests : Kept(r)
    BY <2>1 DEF Kept
  <2>4. QED
    BY <2>2, <2>3, LoopInit DEF RecordInv
<1>2. RecordInv => [\A r \in Requests : Answer(r) => Remembers(r)]_vars
  <2> SUFFICES ASSUME RecordInv, NEW r \in Requests, Answer(r)
               PROVE  Remembers(r)
    OBVIOUS
  <2>1. round[r].step = "record" /\ round[r].unsaved = {} /\ Kept(r)
    BY DEF Answer, RecordInv
  <2>2. ASSUME NEW c \in Collections \ round[r].lost, round[r].found[c] \in Sent
        PROVE  history[round[r].who][c] = RowOf(round[r].found[c])
    BY <2>1, <2>2 DEF Kept
  <2>3. \A o : RowOf(o).passed /\ RowOf(o).minted = IF o = "bought" THEN "some" ELSE "zero"
    BY DEF RowOf
  <2>4. QED
    BY <2>2, <2>3 DEF Remembers
<1>3. QED
  BY <1>1, <1>2, RecordStep, PTL DEF Spec, SentIsRemembered
============================================================================
