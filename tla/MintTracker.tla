---------------------------- MODULE MintTracker ----------------------------
(***************************************************************************)
(* src/tracker.ts: per-collection mint statistics over the sequencer feed.  *)
(* ingest() runs synchronously on each feed transaction; senders are        *)
(* recovered one at a time behind it, from a bounded queue, and a recovery  *)
(* re-evaluates the collection, which by then may have been evicted and     *)
(* discovered again.  The median value, the selectors and the samples of    *)
(* calldata ride along in the report and decide nothing here.               *)
(***************************************************************************)
EXTENDS Integers, Sequences, FiniteSets

CONSTANTS
    Collections, Senders, NoRow, NoJob,
    Window, MinAttempts, MinUniqueMinters, MaxAge, PromoteAfter,  \* TrackerConfig
    FreeOnly, MaxContracts, EvictAfter,
    MaxQueue,             \* 256
    MaxSamples,           \* 512
    MaxClock, MaxMints    \* bounds of the model

ASSUME MintTrackerAssumption ==
    /\ {Window, MinAttempts, MinUniqueMinters, MaxAge, PromoteAfter, EvictAfter,
        MaxQueue, MaxSamples, MaxClock, MaxMints} \subseteq Nat
    /\ MaxContracts \in Nat \ {0}
    /\ FreeOnly \in BOOLEAN

VARIABLES
    clock,     \* Date.now()
    row,       \* contracts
    queue,     \* recoveryQueue
    recovery,  \* the recovery under way (recovering)
    mints,     \* totalMints
    seen       \* history: the attempts counted since a row was promoted

trackerVars == <<clock, row, queue, recovery, mints, seen>>

(* A sample: which attempt of its row, and when.                             *)
Samples == [n : Nat, at : Nat]
Rows == [first : Nat, last : Nat, attempts : Nat, free : Nat, paid : Nat,
         minters : SUBSET Senders, samples : SUBSET Samples, promoted : BOOLEAN, flagged : BOOLEAN]
Recoveries == [contract : Collections, from : Senders]

ASSUME NothingsAssumption == NoRow \notin Rows /\ NoJob \notin Recoveries

TrackerTypeOK ==
    /\ clock \in Nat /\ mints \in Nat
    /\ row \in [Collections -> Rows \cup {NoRow}]
    /\ Cardinality({c \in Collections : row[c] # NoRow}) <= MaxContracts
    /\ queue \in Seq(Recoveries) /\ Len(queue) <= MaxQueue
    /\ recovery \in Recoveries \cup {NoJob}
    /\ recovery = NoJob => queue = <<>>
    /\ seen \in [Collections -> SUBSET Samples]

TrackerInit ==
    /\ clock = 0 /\ mints = 0
    /\ row = [c \in Collections |-> NoRow]
    /\ queue = <<>> /\ recovery = NoJob
    /\ seen = [c \in Collections |-> {}]

Tracked == {c \in Collections : row[c] # NoRow}

(* Samples at or after a time. *)
From(attempts, t) == {a \in attempts : a.at >= t}
Since(attempts, t) == Cardinality(From(attempts, t))
WindowStart(s) == IF s.first > clock - Window THEN s.first ELSE clock - Window

----------------------------------------------------------------------------
(* Mutated forms the checks substitute: each is a slip this code could have. *)

KeepNewest(attempts) ==
    IF Cardinality(attempts) > MaxSamples
    THEN {a \in attempts : \E b \in attempts : b.n < a.n} ELSE attempts
RecoverQuietly(s, from) == [s EXCEPT !.minters = @ \cup {from}]
EvictStale(c) == {{d \in Tracked : row[d].last < clock - EvictAfter}}

----------------------------------------------------------------------------
(* attemptsInWindow and evaluate: a collection is reported once its row       *)
(* meets every threshold.                                                    *)
attemptsInWindow(s) == Since(s.samples, WindowStart(s))

Hot(s) ==
    /\ clock - s.first <= MaxAge
    /\ FreeOnly => s.free > s.paid
    /\ attemptsInWindow(s) >= MinAttempts
    /\ MinUniqueMinters > 0 => Cardinality(s.minters) >= MinUniqueMinters

evaluate(s) == [s EXCEPT !.flagged = @ \/ Hot(s)]

(* Samples out of the window are dropped once there are too many. *)
TrimSamples(attempts) ==
    IF Cardinality(attempts) > MaxSamples THEN From(attempts, clock - Window) ELSE attempts

(* The rows evictIfNeeded drops when c is discovered: the stale ones, then    *)
(* the least recently active until the limit holds.                          *)
Stale == {d \in Tracked : row[d].last < clock - EvictAfter}
Evicted(c) ==
    IF Cardinality(Tracked \cup {c}) <= MaxContracts THEN {{}}
    ELSE {Stale \cup more : more \in {m \in SUBSET (Tracked \ Stale) :
            /\ Cardinality(m) = IF Cardinality((Tracked \cup {c}) \ Stale) > MaxContracts
                                THEN Cardinality((Tracked \cup {c}) \ Stale) - MaxContracts
                                ELSE 0
            /\ \A d \in m, e \in Tracked \ (Stale \cup m) : row[d].last <= row[e].last}}

NewRow(known) ==
    [first |-> clock, last |-> clock, attempts |-> 0, free |-> 0, paid |-> 0, minters |-> {},
     samples |-> {}, promoted |-> known, flagged |-> FALSE]

(* ingest() on the row of the collection, up to the sender recovery. *)
Counted(s, free) ==
    [s EXCEPT !.last = clock, !.attempts = @ + 1,
              !.free = IF free THEN @ + 1 ELSE @,
              !.paid = IF free THEN @ ELSE @ + 1,
              !.promoted = @ \/ s.attempts + 1 >= PromoteAfter]
ThisAttempt(s) == [n |-> s.attempts, at |-> clock]
Sampled(s) ==
    IF s.promoted THEN evaluate([s EXCEPT !.samples = TrimSamples(@ \cup {ThisAttempt(s)})]) ELSE s

(* enqueueRecovery: a full queue drops the recovery; an idle drain starts at once. *)
Push(j) == IF Len(queue) >= MaxQueue THEN queue ELSE Append(queue, j)
Enqueue(j) ==
    IF recovery = NoJob THEN recovery' = j /\ UNCHANGED queue ELSE queue' = Push(j) /\ UNCHANGED recovery

Ingest(c, from, free, known) ==
    LET old == IF row[c] = NoRow THEN NewRow(known) ELSE row[c]
        new == Sampled(Counted(old, free))
    IN
    /\ mints < MaxMints
    /\ mints' = mints + 1
    /\ \E gone \in IF row[c] = NoRow THEN Evicted(c) ELSE {{}} :
          /\ row' = [d \in Collections |-> IF d = c THEN new
                                            ELSE IF d \in gone THEN NoRow ELSE row[d]]
          /\ seen' = [d \in Collections |->
                IF d = c
                THEN IF new.promoted
                     THEN (IF row[c] = NoRow THEN {} ELSE seen[c]) \cup {ThisAttempt(new)} ELSE {}
                ELSE IF d \in gone THEN {} ELSE seen[d]]
    /\ IF new.promoted THEN Enqueue([contract |-> c, from |-> from])
       ELSE UNCHANGED <<queue, recovery>>
    /\ UNCHANGED clock

(* drainRecoveries takes the next recovery, if there is one. *)
Shift ==
    /\ recovery' = IF queue = <<>> THEN NoJob ELSE Head(queue)
    /\ queue' = IF queue = <<>> THEN <<>> ELSE Tail(queue)

Learned(s, from) == evaluate([s EXCEPT !.minters = @ \cup {from}])

Recover ==
    LET c == recovery.contract IN
    /\ recovery # NoJob
    /\ row' = IF row[c] = NoRow THEN row ELSE [row EXCEPT ![c] = Learned(@, recovery.from)]
    /\ Shift
    /\ UNCHANGED <<clock, mints, seen>>

(* An unparseable signature. *)
RecoverFails ==
    /\ recovery # NoJob
    /\ Shift
    /\ UNCHANGED <<clock, row, mints, seen>>

ClockTick ==
    /\ clock < MaxClock
    /\ clock' = clock + 1
    /\ UNCHANGED <<row, queue, recovery, mints, seen>>

TrackerNext ==
    \/ \E c \in Collections, from \in Senders, free, known \in BOOLEAN :
          Ingest(c, from, free, known)
    \/ Recover \/ RecoverFails
    \/ ClockTick

TrackerSpec == TrackerInit /\ [][TrackerNext]_trackerVars

----------------------------------------------------------------------------
(* A collection that meets every threshold at this moment has been reported: *)
(* neither a late sender, a dropped recovery, a trim nor the passing of time *)
(* lets one slip by, since it is evaluated whenever it can turn hot.         *)
NeverMissed == \A c \in Tracked : row[c].promoted /\ Hot(row[c]) => row[c].flagged

(* The samples kept decide as all of them would: "Only samples inside the   *)
(* velocity window can ever affect the decision".                           *)
WindowExact ==
    \A c \in Tracked : attemptsInWindow(row[c]) = Since(seen[c], WindowStart(row[c]))
=============================================================================
