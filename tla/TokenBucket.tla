----------------------------- MODULE TokenBucket -----------------------------
(***************************************************************************)
(* checkRateLimit of src/ratelimit.ts: one bucket of tokens per caller and  *)
(* limit, created full by the first call, refilled by every call for the    *)
(* time since the last one.  The clock is Date.now(), which the host may    *)
(* also set back.  Tokens are counted in parts, Unit parts to a token, so   *)
(* that the refill of one tick of the clock is a whole number.              *)
(***************************************************************************)
EXTENDS Integers

CONSTANTS
    Callers,              \* the keys of the buckets: limit name and client address
    Capacity,             \* tokens of a full bucket
    Unit,                 \* parts of a token
    Refill,               \* parts that one tick of the clock adds
    MaxClock,             \* bound: the clock
    MaxForward            \* bound: how far the clock moves forward in all

ASSUME TokenBucketAssumption ==
    /\ Capacity \in Nat \ {0} /\ Unit \in Nat \ {0} /\ Refill \in Nat \ {0}
    /\ MaxClock \in Nat /\ MaxForward \in Nat

VARIABLES
    now,       \* the clock
    forward,   \* how far it has ever moved forward, however often it was set back
    buckets,   \* [tokens, lastRefill] of each caller
    granted    \* the calls each caller was allowed

bucketVars == <<now, forward, buckets, granted>>

NoBucket == [tokens |-> 0, lastRefill |-> -1]

BucketTypeOK ==
    /\ now \in 0..MaxClock
    /\ forward \in 0..MaxForward
    /\ buckets \in [Callers -> [tokens : 0..(Capacity * Unit), lastRefill : -1..MaxClock]]
    /\ granted \in [Callers -> Nat]

BucketInit ==
    /\ now \in 0..MaxClock
    /\ forward = 0
    /\ buckets = [c \in Callers |-> NoBucket]
    /\ granted = [c \in Callers |-> 0]

----------------------------------------------------------------------------
(* Mutated forms the checks substitute: each is a slip this code could have. *)

ElapsedEitherWay(b) == IF now > b.lastRefill THEN now - b.lastRefill ELSE b.lastRefill - now

----------------------------------------------------------------------------
LesserOf(i, j) == IF i < j THEN i ELSE j

Found(c) ==
    IF buckets[c] = NoBucket THEN [tokens |-> Capacity * Unit, lastRefill |-> now] ELSE buckets[c]

Elapsed(b) == IF now > b.lastRefill THEN now - b.lastRefill ELSE 0

Filled(b) == LesserOf(Capacity * Unit, b.tokens + Elapsed(b) * Refill)

(* The call is allowed; or refused, with its bucket refilled all the same. *)
Allow(c) ==
    LET tokens == Filled(Found(c)) IN
    /\ tokens >= Unit
    /\ buckets' = [buckets EXCEPT ![c] = [tokens |-> tokens - Unit, lastRefill |-> now]]
    /\ granted' = [granted EXCEPT ![c] = granted[c] + 1]
    /\ UNCHANGED <<now, forward>>

Deny(c) ==
    LET tokens == Filled(Found(c)) IN
    /\ tokens < Unit
    /\ buckets' = [buckets EXCEPT ![c] = [tokens |-> tokens, lastRefill |-> now]]
    /\ UNCHANGED <<now, forward, granted>>

----------------------------------------------------------------------------
Tick ==
    /\ now < MaxClock /\ forward < MaxForward
    /\ now' = now + 1
    /\ forward' = forward + 1
    /\ UNCHANGED <<buckets, granted>>

(* The host corrects its clock. *)
StepBack ==
    /\ now > 0
    /\ now' = now - 1
    /\ UNCHANGED <<forward, buckets, granted>>

----------------------------------------------------------------------------
(* However the clock is set back and forth, a caller is never allowed more  *)
(* calls than a full bucket and the refill of all the time the clock has    *)
(* moved forward: no second is refilled twice by one movement of the clock  *)
(* (checkRateLimit, which holds "the average down").                        *)
BucketAverage ==
    \A c \in Callers :
        granted[c] * Unit + buckets[c].tokens <= Capacity * Unit + forward * Refill

(* Its strengthening: time not yet refilled counts as tokens. *)
BucketInv ==
    \A c \in Callers :
        /\ buckets[c].lastRefill = -1 => granted[c] = 0 /\ buckets[c].tokens = 0
        /\ buckets[c].lastRefill # -1 =>
              granted[c] * Unit + buckets[c].tokens + Elapsed(buckets[c]) * Refill
                  <= Capacity * Unit + forward * Refill
============================================================================
