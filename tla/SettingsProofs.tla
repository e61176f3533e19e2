--------------------------- MODULE SettingsProofs ---------------------------
(***************************************************************************)
(* What holds of Migrate, BillingSettings and TokenBucket for every number  *)
(* of clients, requests, fields and accounts and for every rate.  The three *)
(* share a state but hardly meet: each invariant is of one of them, and a   *)
(* step of the others leaves it alone.                                      *)
(***************************************************************************)
EXTENDS Migrate, TLAPS

----------------------------------------------------------------------------
(* The token bucket.                                                        *)

BucketSafeInv == BucketTypeOK /\ BucketInv

BucketSteps == (\E c \in Callers : Allow(c) \/ Deny(c)) \/ Tick \/ StepBack

(* What a movement of the clock by one tick does to the time not refilled.  *)
LEMMA RefillOfOneTick ==
    ASSUME NEW e \in Nat, NEW f \in Nat, e <= f + 1
    PROVE  e * Refill <= f * Refill + Refill
<1>1. Refill \in Nat BY TokenBucketAssumption
<1>2. e * Refill <= (f + 1) * Refill
  <2>1. PICK d \in Nat : f + 1 = e + d
    <3>1. f + 1 - e \in Nat /\ f + 1 = e + (f + 1 - e) OBVIOUS
    <3> QED BY <3>1
  <2>2. (e + d) * Refill = e * Refill + d * Refill BY <1>1
  <2>3. d * Refill \in Nat BY <1>1
  <2>4. e * Refill \in Nat BY <1>1
  <2> QED BY <2>1, <2>2, <2>3, <2>4
<1>3. (f + 1) * Refill = f * Refill + Refill BY <1>1
<1> QED BY <1>2, <1>3

(* Refilling is monotone in the time that went by.                          *)
LEMMA LessTimeLessRefill ==
    ASSUME NEW e \in Nat, NEW f \in Nat, e <= f
    PROVE  e * Refill <= f * Refill
<1>1. Refill \in Nat BY TokenBucketAssumption
<1>2. PICK d \in Nat : f = e + d
  <2>1. f - e \in Nat /\ f = e + (f - e) OBVIOUS
  <2> QED BY <2>1
<1>3. (e + d) * Refill = e * Refill + d * Refill BY <1>1
<1>4. d * Refill \in Nat /\ e * Refill \in Nat BY <1>1
<1> QED BY <1>2, <1>3, <1>4

(* Both kinds of call find the bucket of the caller filled up to the        *)
(* allowance, whether it is new or old.                                     *)
LEMMA FilledIsAllowed ==
    ASSUME BucketSafeInv, NEW c \in Callers
    PROVE  LET tokens == Filled(Found(c)) IN
           /\ tokens \in 0..(Capacity * Unit)
           /\ granted[c] * Unit + tokens <= Capacity * Unit + forward * Refill
<1> DEFINE full == Capacity * Unit
<1>1. full \in Nat /\ forward * Refill \in Nat
  BY TokenBucketAssumption DEF BucketSafeInv, BucketTypeOK
<1>2. now \in Nat /\ granted[c] \in Nat /\ granted[c] * Unit \in Nat
  BY TokenBucketAssumption DEF BucketSafeInv, BucketTypeOK
<1>3. buckets[c].tokens \in 0..full /\ buckets[c].lastRefill \in -1..MaxClock
      /\ buckets[c] = [tokens |-> buckets[c].tokens, lastRefill |-> buckets[c].lastRefill]
  BY DEF BucketSafeInv, BucketTypeOK
<1>4. CASE buckets[c].lastRefill = -1
  <2>1. granted[c] = 0 /\ buckets[c].tokens = 0 BY <1>4 DEF BucketSafeInv, BucketInv
  <2>2. Found(c) = [tokens |-> full, lastRefill |-> now]
    BY <2>1, <1>3, <1>4 DEF Found, NoBucket
  <2>3. Elapsed(Found(c)) = 0 BY <2>2, <1>2 DEF Elapsed
  <2>4. 0 * Refill = 0 /\ granted[c] * Unit = 0 BY <2>1, TokenBucketAssumption
  <2>5. Filled(Found(c)) = full BY <2>2, <2>3, <2>4, <1>1 DEF Filled, LesserOf
  <2> QED BY <2>4, <2>5, <1>1
<1>5. CASE buckets[c].lastRefill # -1
  <2>1. Found(c) = buckets[c] BY <1>5, <1>3 DEF Found, NoBucket
  <2>2. Elapsed(buckets[c]) \in Nat BY <1>2, <1>3, TokenBucketAssumption DEF Elapsed
  <2>3. Elapsed(buckets[c]) * Refill \in Nat BY <2>2, TokenBucketAssumption
  <2>4. granted[c] * Unit + buckets[c].tokens + Elapsed(buckets[c]) * Refill
            <= full + forward * Refill
    BY <1>5 DEF BucketSafeInv, BucketInv
  <2> DEFINE refilled == Elapsed(buckets[c]) * Refill
  <2>5. Filled(Found(c)) = LesserOf(full, buckets[c].tokens + refilled) BY <2>1 DEF Filled
  <2> HIDE DEF full, refilled
  <2>6. QED BY <2>3, <2>4, <2>5, <1>1, <1>2, <1>3 DEF LesserOf, refilled, full
<1> QED BY <1>4, <1>5

(* A bucket starts full, and nothing has been spent.                        *)
LEMMA BucketStarts == BucketInit => BucketSafeInv
<1>1. Capacity * Unit \in Nat BY TokenBucketAssumption
<1> QED BY <1>1, TokenBucketAssumption
     DEF BucketInit, BucketSafeInv, BucketTypeOK, BucketInv, NoBucket

(* A call spends at most what the time since the last one refilled.         *)
LEMMA BucketCalled ==
    ASSUME BucketSafeInv, NEW c \in Callers, Allow(c) \/ Deny(c)
    PROVE  BucketSafeInv'
<1> DEFINE tokens == Filled(Found(c))
           full == Capacity * Unit
<1>1. tokens \in 0..full
      /\ granted[c] * Unit + tokens <= full + forward * Refill
  BY FilledIsAllowed
<1>2. PICK n \in Nat, t \in 0..full :
        /\ buckets' = [buckets EXCEPT ![c] = [tokens |-> t, lastRefill |-> now]]
        /\ granted' = [granted EXCEPT ![c] = n]
        /\ n * Unit + t <= full + forward * Refill
        /\ UNCHANGED <<now, forward>>
  <2>0. granted \in [Callers -> Nat] /\ Unit \in Nat \ {0} /\ full \in Nat
        /\ forward * Refill \in Nat
    BY TokenBucketAssumption DEF BucketSafeInv, BucketTypeOK
  <2>1. CASE Allow(c)
    <3>1. tokens >= Unit /\ granted[c] + 1 \in Nat /\ tokens - Unit \in 0..full
      BY <2>0, <2>1, <1>1 DEF Allow
    <3>2. (granted[c] + 1) * Unit = granted[c] * Unit + Unit /\ granted[c] * Unit \in Nat
      BY <2>0
    <3>3. (granted[c] + 1) * Unit + (tokens - Unit) <= full + forward * Refill
      <4> DEFINE spent == granted[c] * Unit
                 room == full + forward * Refill
      <4>1. spent \in Nat /\ room \in Nat /\ tokens \in Nat /\ spent + tokens <= room
        BY <3>2, <1>1, <2>0
      <4>2. (granted[c] + 1) * Unit = spent + Unit BY <3>2
      <4> HIDE DEF spent, room, tokens
      <4>3. (spent + Unit) + (tokens - Unit) <= room BY <4>1, <2>0
      <4> QED BY <4>2, <4>3 DEF room
    <3>4. /\ buckets' = [buckets EXCEPT ![c] = [tokens |-> tokens - Unit, lastRefill |-> now]]
          /\ granted' = [granted EXCEPT ![c] = granted[c] + 1]
          /\ UNCHANGED <<now, forward>>
      BY <2>1 DEF Allow
    <3> HIDE DEF tokens, full
    <3> QED BY <3>1, <3>3, <3>4
  <2>2. CASE Deny(c)
    <3>1. /\ buckets' = [buckets EXCEPT ![c] = [tokens |-> tokens, lastRefill |-> now]]
          /\ UNCHANGED <<now, forward, granted>>
      BY <2>2 DEF Deny
    <3>2. granted' = [granted EXCEPT ![c] = granted[c]] /\ granted[c] \in Nat
      BY <3>1, <2>0
    <3> HIDE DEF tokens, full
    <3> QED BY <3>1, <3>2, <1>1
  <2> QED BY <2>1, <2>2
<1>3. BucketTypeOK' BY <1>2 DEF BucketSafeInv, BucketTypeOK
<1>4. BucketInv'
  <2> SUFFICES ASSUME NEW d \in Callers
               PROVE  /\ buckets'[d].lastRefill = -1 => granted'[d] = 0 /\ buckets'[d].tokens = 0
                      /\ buckets'[d].lastRefill # -1 =>
                            granted'[d] * Unit + buckets'[d].tokens + (Elapsed(buckets[d]))' * Refill
                                <= full + forward' * Refill
    BY DEF BucketInv, Elapsed
  <2>0. buckets \in [Callers -> [tokens : 0..full, lastRefill : -1..MaxClock]]
        /\ granted \in [Callers -> Nat] /\ now \in Nat
    BY TokenBucketAssumption DEF BucketSafeInv, BucketTypeOK
  <2>1. CASE d = c
    <3>1. buckets'[d] = [tokens |-> t, lastRefill |-> now] /\ granted'[d] = n BY <1>2, <2>0, <2>1
    <3>2. (Elapsed(buckets[d]))' = 0 BY <3>1, <1>2, <2>0 DEF Elapsed
    <3>3. 0 * Refill = 0 /\ n * Unit \in Nat BY TokenBucketAssumption
    <3>4. now # -1 BY <2>0
    <3>5. n * Unit + t + 0 = n * Unit + t BY <3>3
    <3> QED BY <3>1, <3>2, <3>3, <3>4, <3>5, <1>2
  <2>2. CASE d # c
    <3>1. buckets'[d] = buckets[d] /\ granted'[d] = granted[d] /\ now' = now /\ forward' = forward
      BY <1>2, <2>0, <2>2
    <3>2. (Elapsed(buckets[d]))' = Elapsed(buckets[d]) BY <3>1 DEF Elapsed
    <3> QED BY <3>1, <3>2 DEF BucketSafeInv, BucketInv
  <2> QED BY <2>1, <2>2
<1> QED BY <1>3, <1>4 DEF BucketSafeInv

(* Time going by, or back, spends nothing.                                  *)
LEMMA BucketClock ==
    ASSUME BucketSafeInv, Tick \/ StepBack
    PROVE  BucketSafeInv'
<1>0. /\ buckets' = buckets /\ granted' = granted
      /\ now \in 0..MaxClock /\ forward \in 0..MaxForward /\ MaxClock \in Nat /\ MaxForward \in Nat
      /\ buckets \in [Callers -> [tokens : 0..(Capacity * Unit), lastRefill : -1..MaxClock]]
      /\ granted \in [Callers -> Nat]
      /\ Capacity * Unit \in Nat /\ Refill \in Nat /\ Unit \in Nat
  BY TokenBucketAssumption DEF Tick, StepBack, BucketSafeInv, BucketTypeOK
<1>1. BucketTypeOK'
  BY <1>0 DEF BucketTypeOK, Tick, StepBack
<1>2. BucketInv'
  <2> SUFFICES ASSUME NEW c \in Callers
               PROVE  /\ buckets[c].lastRefill = -1 => granted[c] = 0 /\ buckets[c].tokens = 0
                      /\ buckets[c].lastRefill # -1 =>
                            granted[c] * Unit + buckets[c].tokens + (Elapsed(buckets[c]))' * Refill
                                <= Capacity * Unit + forward' * Refill
    BY <1>0 DEF BucketInv, Elapsed
  <2>1. buckets[c].lastRefill = -1 => granted[c] = 0 /\ buckets[c].tokens = 0
    BY DEF BucketSafeInv, BucketInv
  <2>2. ASSUME buckets[c].lastRefill # -1
        PROVE  granted[c] * Unit + buckets[c].tokens + (Elapsed(buckets[c]))' * Refill
                   <= Capacity * Unit + forward' * Refill
    <3> DEFINE before == Elapsed(buckets[c])
               after == (Elapsed(buckets[c]))'
               held == granted[c] * Unit + buckets[c].tokens
               full == Capacity * Unit
    <3>1. held + before * Refill <= full + forward * Refill
      BY <2>2 DEF BucketSafeInv, BucketInv
    <3>2. before \in Nat /\ after \in Nat /\ buckets[c].lastRefill \in Int
      BY <1>0 DEF Elapsed, Tick, StepBack
    <3>3. held \in Nat /\ full \in Nat /\ before * Refill \in Nat /\ after * Refill \in Nat
          /\ forward * Refill \in Nat
      BY <1>0, <3>2
    <3>4. CASE Tick
      <4>1. forward' = forward + 1 /\ after <= before + 1
        BY <3>4, <3>2, <1>0 DEF Tick, Elapsed
      <4>2. after * Refill <= before * Refill + Refill BY <4>1, <3>2, RefillOfOneTick
      <4>3. forward' * Refill = forward * Refill + Refill BY <4>1, <1>0
      <4> HIDE DEF before, after, held, full
      <4>4. held + after * Refill <= full + forward' * Refill
        BY <4>2, <4>3, <3>1, <3>3, <1>0
      <4> QED BY <4>4 DEF after, held, full
    <3>5. CASE StepBack
      <4>1. forward' = forward /\ after <= before BY <3>5, <3>2, <1>0 DEF StepBack, Elapsed
      <4>2. after * Refill <= before * Refill BY <4>1, <3>2, LessTimeLessRefill
      <4> HIDE DEF before, after, held, full
      <4>4. held + after * Refill <= full + forward' * Refill
        BY <4>1, <4>2, <3>1, <3>3
      <4> QED BY <4>4 DEF after, held, full
    <3> QED BY <3>4, <3>5
  <2> QED BY <2>1, <2>2
<1> QED BY <1>1, <1>2 DEF BucketSafeInv

(* Every step of the whole is one of these or leaves the buckets alone.     *)
LEMMA BucketStepOrNot == [Next]_vars => [BucketSteps]_bucketVars
<1> SUFFICES ASSUME Next, bucketVars' # bucketVars
             PROVE  BucketSteps
  BY DEF vars
<1>1. ASSUME NEW q \in Requests, Serve(q) PROVE BucketSteps
  <2>1. Admit(q) BY <1>1 DEF Serve, bucketVars
  <2>2. CallerOf[q] \in Callers BY BillingAssumption
  <2> QED BY <2>1, <2>2 DEF Admit, BucketSteps
<1>2. CASE Clock BY <1>2 DEF Clock, BucketSteps
<1>3. CASE (\E a \in Accounts : SignUpOld(a)) \/ Used \/ Discover \/ ExportAccounts \/ ExportRest
  BY <1>3 DEF SignUpOld, Used, Use, UseReads, UseStores, Discover, ExportAccounts, ExportRest
<1>4. CASE Import
  BY <1>4 DEF Import, StartImport, Get, Set, ReadFile, Store, BreakOff
<1> QED BY <1>1, <1>2, <1>3, <1>4 DEF Next

(* What was spent stays within capacity plus refill at every step.          *)
LEMMA BucketStep ==
    ASSUME BucketSafeInv, [Next]_vars
    PROVE  BucketSafeInv'
<1>1. CASE UNCHANGED bucketVars
  BY <1>1 DEF bucketVars, BucketSafeInv, BucketTypeOK, BucketInv, Elapsed
<1>2. CASE BucketSteps BY <1>2, BucketCalled, BucketClock DEF BucketSteps
<1> QED BY <1>1, <1>2, BucketStepOrNot

(* For every capacity, rate and number of clients: no client is allowed     *)
(* more calls than a full bucket and the refill of the time the clock moved *)
(* forward, however it is set back (checkRateLimit).                        *)
THEOREM BucketSafe == Spec => []BucketAverage
<1>1. Init => BucketSafeInv BY BucketStarts DEF Init
<1>2. BucketSafeInv /\ [Next]_vars => BucketSafeInv'
  BY BucketStep
<1>3. BucketSafeInv => BucketAverage
  <2> SUFFICES ASSUME BucketSafeInv, NEW c \in Callers
               PROVE  granted[c] * Unit + buckets[c].tokens <= Capacity * Unit + forward * Refill
    BY DEF BucketAverage
  <2>1. /\ granted[c] * Unit \in Nat /\ buckets[c].tokens \in Nat
        /\ Capacity * Unit \in Nat /\ forward * Refill \in Nat
        /\ granted[c] \in Nat
    BY TokenBucketAssumption DEF BucketSafeInv, BucketTypeOK
  <2>2. CASE buckets[c].lastRefill = -1
    <3>1. granted[c] = 0 /\ buckets[c].tokens = 0 BY <2>2 DEF BucketSafeInv, BucketInv
    <3>2. granted[c] * Unit = 0 BY <3>1, TokenBucketAssumption
    <3> QED BY <3>1, <3>2, <2>1
  <2>3. CASE buckets[c].lastRefill # -1
    <3>1. Elapsed(buckets[c]) \in Nat
      BY TokenBucketAssumption DEF BucketSafeInv, BucketTypeOK, Elapsed
    <3>2. Elapsed(buckets[c]) * Refill \in Nat BY <3>1, TokenBucketAssumption
    <3>3. granted[c] * Unit + buckets[c].tokens + Elapsed(buckets[c]) * Refill
              <= Capacity * Unit + forward * Refill
      BY <2>3 DEF BucketSafeInv, BucketInv
    <3> QED BY <3>2, <3>3, <2>1
  <2> QED BY <2>2, <2>3
<1> QED BY <1>1, <1>2, <1>3, PTL DEF Spec

----------------------------------------------------------------------------
(* The import: while nobody has met it on the file, what it is about to      *)
(* write was not there when it looked.                                      *)

MoveInv ==
    /\ dest \in [DestRows -> Origins] /\ copy \in [DestRows -> Origins]
    /\ mine \in [DestRows -> Origins] /\ saving \in DestRows \cup {NoSave}
    /\ disturbed \in BOOLEAN
    /\ step \in {"idle", "get", "set", "store"} /\ current \in Rows
    /\ Undisturbed

(* Rows are told apart by their namespace.                                  *)
LEMMA RowsDiffer ==
    /\ \A a, b \in Accounts : AccountRow(a) # FindingsRow(b)
    /\ \A a, b \in Accounts : AccountRow(a) = AccountRow(b) => a = b
    /\ Billing \notin AccountRows
    /\ \A a \in Accounts : AccountRow(a) \in AccountRows /\ AccountRow(a) \in DestRows
                           /\ FindingsRow(a) \in DestRows
BY DEF AccountRow, FindingsRow, Billing, AccountRows, DestRows

MoveSteps == Used \/ Import

(* The rows of another file than the accounts' are no accounts.             *)
LEMMA FilesDiffer ==
    ASSUME NEW c \in AccountRows
    PROVE  /\ c \in FileOf(c) /\ c \in DestRows /\ FileOf(c) \subseteq DestRows
           /\ \A s \in DestRows : ~SameFile(s, c) => \A r \in FileOf(c) : r \notin FileOf(s) /\ r # s
<1>1. PICK a \in Accounts : c = AccountRow(a) BY DEF AccountRows
<1>2. c[1] = "accounts" BY <1>1 DEF AccountRow
<1>3. \A r : SameFile(r, c) <=> r[1] = "accounts" BY <1>2 DEF SameFile
<1>4. c \in DestRows /\ c \in FileOf(c) /\ FileOf(c) \subseteq DestRows
  BY <1>1, <1>2, <1>3, RowsDiffer DEF FileOf
<1>5. ASSUME NEW s \in DestRows, ~SameFile(s, c), NEW r \in FileOf(c)
      PROVE  r \notin FileOf(s) /\ r # s
  <2>1. r[1] = "accounts" /\ s[1] # "accounts" BY <1>3, <1>5 DEF FileOf
  <2> QED BY <2>1 DEF FileOf, SameFile
<1> QED BY <1>4, <1>5

(* What reads and writes of a file make of the rows are rows.               *)
LEMMA FilesTyped ==
    ASSUME MoveInv, NEW s
    PROVE  /\ FileReads(s) \subseteq [DestRows -> Origins]
           /\ Emptied(s) \in [DestRows -> Origins]
           /\ \A read \in [DestRows -> Origins], o \in Origins : Written(s, o, read) \in [DestRows -> Origins]
<1>0. dest \in [DestRows -> Origins] BY DEF MoveInv
<1>1. FileReads(s) \subseteq [DestRows -> Origins] BY <1>0 DEF FileReads, Nothing, Origins
<1>2. Emptied(s) \in [DestRows -> Origins] BY <1>0 DEF Emptied, Origins
<1>3. \A read \in [DestRows -> Origins], o \in Origins : Written(s, o, read) \in [DestRows -> Origins]
  BY <1>0 DEF Written
<1> QED BY <1>1, <1>2, <1>3

(* The requests for the prices, the clock and the old host leave it alone.  *)
LEMMA MoveStepOrNot ==
    ASSUME [Next]_vars
    PROVE  MoveSteps \/ UNCHANGED <<dest, copy, step, option, current, driver, disturbed, saving, mine>>
<1>1. ASSUME NEW q \in Requests, Serve(q)
      PROVE  UNCHANGED <<dest, copy, step, option, current, driver, disturbed, saving, mine>>
  BY <1>1 DEF Serve, Handle, Admit, Patch, SetRedis, OpenFile, WriteFile, moveVars, serverVars
<1>2. CASE Clock BY <1>2 DEF Clock, moveVars, settingVars, serverVars
<1>3. CASE (\E a \in Accounts : SignUpOld(a)) \/ Discover \/ ExportAccounts \/ ExportRest
  BY <1>3 DEF SignUpOld, Discover, ExportAccounts, ExportRest, settingVars, serverVars
<1>4. CASE UNCHANGED vars BY <1>4 DEF vars, moveVars, settingVars, serverVars
<1> QED BY <1>1, <1>2, <1>3, <1>4 DEF Next, MoveSteps

(* Nothing is used before the move.                                         *)
LEMMA MoveStarts == Init => MoveInv
BY DEF Init, MoveInv, Nothing, Undisturbed, Origins, Rows

(* The server's saves make the import disturbed where they meet it.         *)
LEMMA UsingIsSafe ==
    ASSUME MoveInv, Used
    PROVE  MoveInv' /\ UNCHANGED <<step, todo>>
<1>0. UNCHANGED <<copy, step, todo, option, current, driver>>
  BY DEF Used, Use, UseReads, UseStores, settingVars
<1>1. ASSUME NEW r \in DestRows, Use(r) PROVE MoveInv'
  <2>1. /\ dest' = [dest EXCEPT ![r] = "new"] /\ driver # "file"
        /\ UNCHANGED <<disturbed, saving, mine>>
    BY <1>1 DEF Use, serverVars
  <2>2. PICK a \in Accounts : dest[AccountRow(a)] # "none" /\ r \in {AccountRow(a), FindingsRow(a)}
    BY <1>1 DEF Use, Uses
  <2>3. dest' \in [DestRows -> Origins] BY <2>1 DEF MoveInv, Origins
  <2>4. ~disturbed /\ step # "store" /\ saving = NoSave BY <2>1 DEF MoveInv, Undisturbed
  <2>5. ASSUME step = "set", option # "overwrite", current \in AccountRows
        PROVE  dest'[current] = "none" \/ driver = "memory"
    <3>1. dest[current] = "none" \/ driver = "memory" BY <2>4, <2>5 DEF MoveInv, Undisturbed
    <3>2. CASE dest[current] = "none"
      <4>1. PICK b \in Accounts : current = AccountRow(b) BY <2>5 DEF AccountRows
      <4>2. b # a BY <4>1, <3>2, <2>2
      <4>3. r # current BY <2>2, <4>1, <4>2, RowsDiffer
      <4>4. current \in DestRows BY <4>1, RowsDiffer
      <4>5. dest'[current] = dest[current] BY <2>1, <4>3, <4>4 DEF MoveInv
      <4> QED BY <4>5, <3>2
    <3> QED BY <3>1, <3>2
  <2>6. Undisturbed' BY <1>0, <2>1, <2>4, <2>5 DEF Undisturbed
  <2> QED BY <1>0, <2>1, <2>3, <2>6 DEF MoveInv
<1>2. ASSUME NEW r \in DestRows, UseReads(r) PROVE MoveInv'
  <2>1. UNCHANGED <<dest, disturbed>> /\ saving' = r /\ driver = "file" /\ mine' \in FileReads(r)
    BY <1>2 DEF UseReads
  <2>2. mine' \in [DestRows -> Origins] BY <2>1, FilesTyped
  <2>3. Undisturbed' BY <1>0, <2>1 DEF MoveInv, Undisturbed
  <2> QED BY <1>0, <2>1, <2>2, <2>3 DEF MoveInv
<1>3. CASE UseStores
  <2>1. /\ saving \in DestRows /\ driver = "file" /\ saving' = NoSave /\ mine' = Nothing
        /\ dest' \in {Written(saving, "new", mine), dest, Emptied(saving)}
        /\ disturbed' = (disturbed \/ (dest' # dest /\ SameFile(saving, current)))
    BY <1>3 DEF UseStores, MoveInv, Undisturbed
  <2>2. dest' \in [DestRows -> Origins]
    <3>1. "new" \in Origins BY DEF Origins
    <3>2. Written(saving, "new", mine) \in [DestRows -> Origins] BY <3>1, FilesTyped DEF MoveInv
    <3> QED BY <2>1, <3>2, FilesTyped DEF MoveInv
  <2>3. mine' \in [DestRows -> Origins] BY <2>1 DEF Nothing, Origins
  <2>4. disturbed' \in BOOLEAN BY <2>1
  <2>5. ASSUME current \in AccountRows, ~disturbed'
        PROVE  ~disturbed /\ \A r \in FileOf(current) : dest'[r] = dest[r]
    <3>1. ~disturbed BY <2>1, <2>5
    <3>2. CASE dest' = dest BY <3>1, <3>2
    <3>3. CASE ~SameFile(saving, current)
      <4>1. ASSUME NEW r \in FileOf(current) PROVE dest'[r] = dest[r]
        <5>1. r \in DestRows /\ r \notin FileOf(saving) /\ r # saving
          BY <2>1, <2>5, <3>3, FilesDiffer
        <5>2. Written(saving, "new", mine)[r] = dest[r] BY <5>1 DEF Written
        <5>3. Emptied(saving)[r] = dest[r] BY <5>1 DEF Emptied
        <5> QED BY <2>1, <5>2, <5>3
      <4> QED BY <3>1, <4>1
    <3> QED BY <2>1, <2>5, <3>2, <3>3
  <2>6. Undisturbed'
    <3>1. disturbed' => driver = "file" BY <2>1
    <3>2. ASSUME step \in {"set", "store"}, option # "overwrite", current \in AccountRows, ~disturbed'
          PROVE  /\ dest'[current] = "none" \/ driver = "memory"
                 /\ step = "store" => \A r \in FileOf(current) : copy[r] = dest'[r]
      <4>1. ~disturbed /\ \A r \in FileOf(current) : dest'[r] = dest[r] BY <2>5, <3>2
      <4>2. current \in FileOf(current) BY <3>2, FilesDiffer
      <4>3. dest'[current] = dest[current] BY <4>1, <4>2
      <4>4. /\ dest[current] = "none" \/ driver = "memory"
            /\ step = "store" => \A r \in FileOf(current) : copy[r] = dest[r]
        BY <3>2, <4>1 DEF MoveInv, Undisturbed
      <4> QED BY <4>1, <4>3, <4>4
    <3>3. FileOf(current)' = FileOf(current) BY <1>0 DEF FileOf
    <3> QED BY <1>0, <2>1, <3>1, <3>2, <3>3 DEF Undisturbed
  <2> QED BY <1>0, <2>1, <2>2, <2>3, <2>4, <2>6 DEF MoveInv
<1> QED BY <1>0, <1>1, <1>2, <1>3 DEF Used

MoveKeeps ==
    \A a \in Accounts :
        dest[AccountRow(a)] = "new" /\ dest'[AccountRow(a)] # "new" /\ ImportMoves =>
            option = "overwrite" \/ (driver = "file" /\ disturbed')

(* The steps of the import that write no row.                               *)
LEMMA LookingIsSafe ==
    ASSUME MoveInv, StartImport \/ (\E r \in Rows : Get(r))
    PROVE  MoveInv' /\ dest' = dest
<1>1. CASE StartImport BY <1>1 DEF StartImport, settingVars, serverVars, MoveInv, Undisturbed
<1>2. ASSUME NEW r \in Rows, Get(r) PROVE MoveInv' /\ dest' = dest
  <2>1. UNCHANGED <<dest, driver, saving, mine>> /\ step = "get"
    BY <1>2 DEF Get, settingVars, serverVars
  <2>2. PICK found \in Finds(r) :
          /\ \/ (Skips(found) \/ option = "dry") /\ Passed(r)
             \/ /\ ~Skips(found) /\ option # "dry"
                /\ step' = "set" /\ current' = r
                /\ UNCHANGED <<todo, option, copy>>
          /\ disturbed' = (found # Present(r))
    BY <1>2 DEF Get
  <2>3. disturbed' \in BOOLEAN /\ (disturbed' => driver = "file") BY <2>2 DEF Finds
  <2>4. CASE Passed(r)
    <3>1. step' \in {"idle", "get"} /\ copy' = Nothing /\ current' \in Rows
      BY <2>4 DEF Passed, Rows
    <3>2. copy' \in [DestRows -> Origins] BY <3>1 DEF Nothing, Origins
    <3> QED BY <2>1, <2>3, <3>1, <3>2 DEF MoveInv, Undisturbed
  <2>5. CASE ~Skips(found) /\ step' = "set" /\ current' = r /\ UNCHANGED <<todo, option, copy>>
    <3>1. ASSUME option # "overwrite", r \in AccountRows, ~disturbed'
          PROVE  dest[r] = "none" \/ driver = "memory"
      <4>1. ~Present(r) BY <2>2, <2>5, <3>1 DEF Skips
      <4> QED BY <4>1, <3>1, RowsDiffer DEF Present
    <3> QED BY <2>1, <2>3, <2>5, <3>1 DEF MoveInv, Undisturbed
  <2> QED BY <2>2, <2>4, <2>5
<1> QED BY <1>1, <1>2

(* An import that is broken off in a write disturbs the file itself.        *)
LEMMA BreakingIsSafe ==
    ASSUME MoveInv, BreakOff
    PROVE  MoveInv' /\ MoveKeeps
<1>1. /\ dest' = dest \/ (step = "store" /\ dest' = Emptied(current))
      /\ step' = "idle" /\ copy' = Nothing /\ disturbed' = (disturbed \/ dest' # dest)
      /\ current' \in Rows /\ UNCHANGED <<driver, saving, mine>>
  BY DEF BreakOff, serverVars, Rows
<1>2. dest' \in [DestRows -> Origins] /\ copy' \in [DestRows -> Origins]
  BY <1>1, FilesTyped DEF MoveInv, Nothing, Origins
<1>3. disturbed' \in BOOLEAN /\ (disturbed' => driver = "file")
  BY <1>1 DEF MoveInv, Undisturbed
<1>4. MoveInv' BY <1>1, <1>2, <1>3 DEF MoveInv, Undisturbed
<1>5. MoveKeeps BY <1>1, <1>3 DEF MoveKeeps
<1> QED BY <1>4, <1>5

(* The write reads the file; what it misses of it counts as a disturbance.  *)
LEMMA ReadingIsSafe ==
    ASSUME MoveInv, ReadFile
    PROVE  MoveInv' /\ dest' = dest
<1>1. /\ UNCHANGED <<dest, driver, saving, mine, option, current>> /\ driver = "file"
      /\ step = "set" /\ step' = "store" /\ copy' \in FileReads(current)
      /\ disturbed' = (disturbed \/ \E r \in FileOf(current) : copy'[r] # dest[r])
  BY DEF ReadFile, serverVars
<1>2. copy' \in [DestRows -> Origins] BY <1>1, FilesTyped
<1>3. disturbed' \in BOOLEAN BY <1>1
<1>4. FileOf(current)' = FileOf(current) BY <1>1 DEF FileOf
<1>5. ~disturbed' => ~disturbed /\ \A r \in FileOf(current) : copy'[r] = dest'[r] BY <1>1
<1>6. Undisturbed' BY <1>1, <1>4, <1>5 DEF MoveInv, Undisturbed
<1> QED BY <1>1, <1>2, <1>3, <1>6 DEF MoveInv

(* A row that lands is the one the import is at.                            *)
LEMMA LandingIsSafe ==
    ASSUME MoveInv, Set \/ Store
    PROVE  MoveInv' /\ MoveKeeps
<1>0. dest \in [DestRows -> Origins] /\ copy \in [DestRows -> Origins] BY DEF MoveInv
<1>1. dest' \in [DestRows -> Origins]
  <2>1. "old" \in Origins BY DEF Origins
  <2>2. Written(current, "old", copy) \in [DestRows -> Origins] BY <1>0, <2>1, FilesTyped
  <2>3. CASE Set
    <3>1. dest' = dest \/ dest' = [dest EXCEPT ![current] = "old"] BY <2>3 DEF Set
    <3> QED BY <1>0, <2>1, <3>1
  <2>4. CASE Store BY <1>0, <2>2, <2>4 DEF Store
  <2> QED BY <2>3, <2>4
<1>2. /\ step' \in {"idle", "get"} /\ copy' = Nothing /\ current' \in Rows
      /\ UNCHANGED <<driver, disturbed, saving, mine>>
  BY DEF Set, Store, Passed, Rows, serverVars
<1>3. MoveInv'
  <2>1. copy' \in [DestRows -> Origins] BY <1>2 DEF Nothing, Origins
  <2> QED BY <1>1, <1>2, <2>1 DEF MoveInv, Undisturbed
<1>4. ASSUME NEW a \in Accounts, dest[AccountRow(a)] = "new", dest'[AccountRow(a)] # "new",
             option # "overwrite"
      PROVE  driver = "file" /\ disturbed'
  <2>0. AccountRow(a) \in DestRows /\ AccountRow(a) \in AccountRows BY RowsDiffer
  <2>1. SUFFICES ASSUME ~disturbed PROVE FALSE BY <1>2 DEF MoveInv, Undisturbed
  <2>2. CASE Set
    <3>1. current = AccountRow(a) /\ driver # "memory" /\ step = "set"
      BY <2>0, <2>2, <1>0, <1>4 DEF Set
    <3>2. dest[AccountRow(a)] = "none" BY <3>1, <2>0, <2>1, <1>4 DEF MoveInv, Undisturbed
    <3> QED BY <3>2, <1>4
  <2>3. CASE Store
    <3>1. step = "store" /\ driver = "file" /\ dest' = Written(current, "old", copy)
      BY <2>3, <1>4 DEF Store, MoveInv, Undisturbed
    <3>2. dest'[AccountRow(a)] = IF AccountRow(a) = current THEN "old"
                                 ELSE IF AccountRow(a) \in FileOf(current) THEN copy[AccountRow(a)]
                                 ELSE dest[AccountRow(a)]
      BY <2>0, <3>1 DEF Written
    <3>3. AccountRow(a) = current \/ AccountRow(a) \in FileOf(current) BY <3>2, <1>4
    <3>4. current \in AccountRows
      <4>1. CASE AccountRow(a) = current BY <2>0, <4>1
      <4>2. CASE AccountRow(a) \in FileOf(current)
        <5>1. current[1] = "accounts" BY <4>2 DEF FileOf, SameFile, AccountRow
        <5>2. current \in Rows BY DEF MoveInv
        <5> QED BY <5>1, <5>2 DEF Rows, Billing, DestRows, FindingsRow, AccountRow, AccountRows
      <4> QED BY <3>3, <4>1, <4>2
    <3>5. dest[current] = "none" /\ \A r \in FileOf(current) : copy[r] = dest[r]
      BY <2>1, <3>1, <3>4, <1>4 DEF MoveInv, Undisturbed
    <3> QED BY <3>2, <3>3, <3>5, <1>4
  <2> QED BY <2>2, <2>3
<1> QED BY <1>3, <1>4 DEF MoveKeeps

(* Both processes, each with its own view of the file.                      *)
LEMMA MoveStep ==
    ASSUME MoveInv, [Next]_vars
    PROVE  MoveInv' /\ MoveKeeps
<1>1. CASE UNCHANGED <<dest, copy, step, option, current, driver, disturbed, saving, mine>>
  BY <1>1 DEF MoveInv, Undisturbed, MoveKeeps, FileOf
<1>2. CASE Used BY <1>2, UsingIsSafe DEF MoveKeeps, ImportMoves
<1>3. CASE Import
  <2>1. CASE StartImport \/ (\E r \in Rows : Get(r)) BY <2>1, LookingIsSafe DEF MoveKeeps
  <2>2. CASE BreakOff BY <2>2, BreakingIsSafe
  <2>3. CASE ReadFile BY <2>3, ReadingIsSafe DEF MoveKeeps
  <2>4. CASE Set \/ Store BY <2>4, LandingIsSafe
  <2> QED BY <1>3, <2>1, <2>2, <2>3, <2>4 DEF Import
<1> QED BY <1>1, <1>2, <1>3, MoveStepOrNot DEF MoveSteps

(* For any number of accounts, beside any number of requests: an import     *)
(* without the overwrite option takes no used account back to the backup    *)
(* and drops none, but on the file driver where the server and the import   *)
(* met on the file since it looked at the row (importData).                 *)
THEOREM ImportRollsNothingBack == Spec => NoRollback
<1>1. Init => MoveInv BY MoveStarts
<1>2. MoveInv /\ [Next]_vars => MoveInv' BY MoveStep
<1>3. MoveInv /\ [Next]_vars => [MoveKeeps]_<<dest, step, todo>> BY MoveStep
<1>4. [][MoveKeeps]_<<dest, step, todo>> <=> NoRollback BY PTL DEF NoRollback, MoveKeeps
<1> QED BY <1>1, <1>2, <1>3, <1>4, PTL DEF Spec

----------------------------------------------------------------------------
(* The settings row: who has a fresh copy of it is about to store what its  *)
(* request says and nothing else.                                           *)

Fresh(q) == state[q] \in {"write", "writing"} /\ ~blind[q] /\ ~stale[q] /\ row # NoRow
PatchInv ==
    /\ state \in [Requests -> {"new", "read", "write", "writing", "over"}]
    /\ next \in [Requests -> Overrides]
    /\ blind \in [Requests -> BOOLEAN] /\ stale \in [Requests -> BOOLEAN]
    /\ row \in Overrides \cup {NoRow}
    /\ \A q \in Requests : Fresh(q) => next[q] = parseBillingPatch(q, row)

(* No handler runs.                                                         *)
LEMMA PatchStarts == Init => PatchInv
<1> SUFFICES ASSUME Init PROVE PatchInv OBVIOUS
<1>1. /\ row \in {NoRow, Base}
      /\ state = [q \in Requests |-> "new"]
      /\ next = [q \in Requests |-> NoOverrides]
      /\ blind = [q \in Requests |-> FALSE]
      /\ stale = [q \in Requests |-> FALSE]
  BY DEF Init, SettingsInit
<1>2. Base \in Overrides /\ NoOverrides \in Overrides
  BY BillingAssumption DEF Overrides, NoOverrides
<1> QED BY <1>1, <1>2 DEF PatchInv, Fresh

(* What a valid patch makes of any overrides are overrides.                 *)
LEMMA PatchedIsOverrides ==
    ASSUME NEW q \in Requests, Valid(q), NEW current_ \in Overrides
    PROVE  parseBillingPatch(q, current_) \in Overrides
<1> SUFFICES ASSUME NEW f \in Fields
             PROVE  (IF f \notin DOMAIN Input[q] THEN current_[f]
                     ELSE IF Input[q][f] = Null THEN Unset ELSE Input[q][f]) \in Values \cup {Unset}
  BY DEF parseBillingPatch, Overrides
<1>1. CASE f \notin DOMAIN Input[q] BY <1>1 DEF Overrides
<1>2. CASE f \in DOMAIN Input[q]
  <2>1. Input[q][f] \in Values \cup {Null, Bad} BY <1>2, BillingAssumption
  <2>2. Input[q][f] # Bad BY <1>2 DEF Valid
  <2> QED BY <1>2, <2>1, <2>2
<1> QED BY <1>1, <1>2

(* What a handler read is a set of overrides.                               *)
LEMMA ReadIsOverrides ==
    ASSUME PatchInv
    PROVE  Reads \subseteq Overrides
<1>1. NoOverrides \in Overrides BY DEF NoOverrides, Overrides
<1> QED BY <1>1 DEF PatchInv, Reads, Readable

(* A row that is stored makes everybody else's copy an old one.             *)
LEMMA StoredIsSafe ==
    ASSUME PatchInv, NEW p, Stored(p), row' \in Overrides,
           state' \in [Requests -> {"new", "read", "write", "writing", "over"}],
           next' \in [Requests -> Overrides], blind' \in [Requests -> BOOLEAN],
           \A q \in Requests : q = p => state'[q] = "over",
           \A q \in Requests : q # p => state'[q] = state[q]
    PROVE  PatchInv'
<1>1. stale' = [q \in Requests |-> q # p /\ (stale[q] \/ state[q] \in {"write", "writing"})]
  BY DEF Stored
<1>2. stale' \in [Requests -> BOOLEAN] BY <1>1
<1>3. ASSUME NEW q \in Requests PROVE ~Fresh(q)'
  <2>1. CASE q = p BY <2>1 DEF Fresh
  <2>2. CASE q # p
    <3>1. state'[q] \in {"write", "writing"} => stale'[q] BY <2>2, <1>1
    <3> QED BY <3>1 DEF Fresh
  <2> QED BY <2>1, <2>2
<1> QED BY <1>2, <1>3 DEF PatchInv

(* A request is admitted or refused; the row stays.                         *)
LEMMA AdmitIsSafe ==
    ASSUME PatchInv, NEW p \in Requests, Admit(p)
    PROVE  PatchInv'
<1>1. UNCHANGED <<row, next, blind, stale>> BY DEF Admit
<1>2. /\ state' \in [Requests -> {"new", "read", "write", "writing", "over"}]
      /\ \A q \in Requests : state'[q] = state[q] \/ state'[q] \in {"read", "over"}
  BY DEF Admit, PatchInv
<1>3. ASSUME NEW q \in Requests, Fresh(q)' PROVE next'[q] = parseBillingPatch(q, row')
  <2>1. Fresh(q) BY <1>1, <1>2, <1>3 DEF Fresh
  <2> QED BY <1>1, <2>1 DEF PatchInv
<1> QED BY <1>1, <1>2, <1>3 DEF PatchInv

(* A patch is built on the row as it was read.                              *)
LEMMA PatchIsSafe ==
    ASSUME PatchInv, NEW p \in Requests, Patch(p)
    PROVE  PatchInv'
<1>1. UNCHANGED <<row, stale>> BY DEF Patch
<1>2. CASE Valid(p) /\ driver # "memory"
  <2>1. PICK cur \in Reads :
          /\ next' = [next EXCEPT ![p] = parseBillingPatch(p, cur)]
          /\ blind' = [blind EXCEPT ![p] = Missed(cur)]
          /\ state' = [state EXCEPT ![p] = "write"]
    BY <1>2 DEF Patch
  <2>2. parseBillingPatch(p, cur) \in Overrides
    BY <1>2, ReadIsOverrides, PatchedIsOverrides
  <2>3. Missed(cur) \in BOOLEAN BY DEF Missed
  <2>4. next' \in [Requests -> Overrides] BY <2>1, <2>2 DEF PatchInv
  <2>5. blind' \in [Requests -> BOOLEAN] BY <2>1, <2>3 DEF PatchInv
  <2>6. state' \in [Requests -> {"new", "read", "write", "writing", "over"}] BY <2>1 DEF PatchInv
  <2>7. ASSUME NEW q \in Requests, Fresh(q)' PROVE next'[q] = parseBillingPatch(q, row)
    <3>1. CASE q = p
      <4>1. blind'[p] = Missed(cur) /\ next'[p] = parseBillingPatch(p, cur) BY <2>1 DEF PatchInv
      <4>2. cur = row BY <4>1, <3>1, <2>7, <1>1 DEF Fresh, Missed
      <4> QED BY <4>1, <4>2, <3>1
    <3>2. CASE q # p
      <4>1. state'[q] = state[q] /\ blind'[q] = blind[q] /\ next'[q] = next[q]
        BY <2>1, <3>2 DEF PatchInv
      <4>2. Fresh(q) BY <4>1, <2>7, <1>1 DEF Fresh
      <4> QED BY <4>1, <4>2 DEF PatchInv
    <3> QED BY <3>1, <3>2
  <2> QED BY <1>1, <2>4, <2>5, <2>6, <2>7 DEF PatchInv
<1>3. CASE ~(Valid(p) /\ driver # "memory")
  <2>1. state' = [state EXCEPT ![p] = "over"] /\ UNCHANGED <<next, blind>> BY <1>3 DEF Patch
  <2>2. \A q \in Requests : state'[q] = state[q] \/ state'[q] = "over" BY <2>1 DEF PatchInv
  <2>3. ASSUME NEW q \in Requests, Fresh(q)' PROVE next'[q] = parseBillingPatch(q, row)
    <3>1. Fresh(q) BY <1>1, <2>1, <2>2, <2>3 DEF Fresh
    <3> QED BY <2>1, <3>1 DEF PatchInv
  <2>4. state' \in [Requests -> {"new", "read", "write", "writing", "over"}] BY <2>1 DEF PatchInv
  <2> QED BY <1>1, <2>1, <2>3, <2>4 DEF PatchInv
<1> QED BY <1>2, <1>3

(* The end of a request: its locals are those of a new one.                 *)
LEMMA OverIsTyped ==
    ASSUME PatchInv, NEW p \in Requests, Over(p)
    PROVE  /\ state' \in [Requests -> {"new", "read", "write", "writing", "over"}]
           /\ next' \in [Requests -> Overrides] /\ blind' \in [Requests -> BOOLEAN]
           /\ state'[p] = "over"
           /\ \A q \in Requests : q # p => state'[q] = state[q] /\ next'[q] = next[q] /\ blind'[q] = blind[q]
<1>1. NoOverrides \in Overrides BY DEF NoOverrides, Overrides
<1>2. state' = [state EXCEPT ![p] = "over"] /\ next' = [next EXCEPT ![p] = NoOverrides]
      /\ blind' = [blind EXCEPT ![p] = FALSE]
  BY DEF Over
<1>3. state' \in [Requests -> {"new", "read", "write", "writing", "over"}] BY <1>2 DEF PatchInv
<1>4. next' \in [Requests -> Overrides] BY <1>1, <1>2 DEF PatchInv
<1>5. blind' \in [Requests -> BOOLEAN] BY <1>2 DEF PatchInv
<1>6. state'[p] = "over" BY <1>2 DEF PatchInv
<1>7. \A q \in Requests : q # p => state'[q] = state[q] /\ next'[q] = next[q] /\ blind'[q] = blind[q]
  BY <1>2 DEF PatchInv
<1> QED BY <1>3, <1>4, <1>5, <1>6, <1>7

(* A saved row is the one that was built.                                   *)
LEMMA SaveIsSafe ==
    ASSUME PatchInv, NEW p \in Requests, SetRedis(p) \/ WriteFile(p)
    PROVE  PatchInv'
<1>1. Over(p) /\ next[p] \in Overrides BY DEF SetRedis, WriteFile, PatchInv
<1>2. CASE row' = next[p] /\ Stored(p)
  BY <1>1, <1>2, OverIsTyped, StoredIsSafe
<1>3. CASE row' = row /\ stale' = [stale EXCEPT ![p] = FALSE]
  <2>1. stale' \in [Requests -> BOOLEAN] BY <1>3 DEF PatchInv
  <2>2. ASSUME NEW q \in Requests, Fresh(q)' PROVE next'[q] = parseBillingPatch(q, row)
    <3>1. q # p BY <2>2, <1>1, OverIsTyped DEF Fresh
    <3>2. state'[q] = state[q] /\ next'[q] = next[q] /\ blind'[q] = blind[q]
      BY <3>1, <1>1, OverIsTyped
    <3>3. stale'[q] = stale[q] BY <3>1, <1>3 DEF PatchInv
    <3>4. Fresh(q) BY <3>2, <3>3, <2>2, <1>3 DEF Fresh
    <3> QED BY <3>2, <3>4 DEF PatchInv
  <2> QED BY <1>1, <1>3, <2>1, <2>2, OverIsTyped DEF PatchInv
<1> QED BY <1>2, <1>3 DEF SetRedis, WriteFile

(* A write that is under way holds a whole row.                             *)
LEMMA OpenIsSafe ==
    ASSUME PatchInv, NEW p \in Requests, OpenFile(p)
    PROVE  PatchInv'
<1>1. UNCHANGED <<row, next, blind, stale>> /\ state' = [state EXCEPT ![p] = "writing"]
      /\ state[p] = "write"
  BY DEF OpenFile
<1>2. state' \in [Requests -> {"new", "read", "write", "writing", "over"}] BY <1>1 DEF PatchInv
<1>3. \A q \in Requests : state'[q] \in {"write", "writing"} <=> state[q] \in {"write", "writing"}
  BY <1>1 DEF PatchInv
<1>4. ASSUME NEW q \in Requests, Fresh(q)' PROVE next'[q] = parseBillingPatch(q, row')
  <2>1. Fresh(q) BY <1>1, <1>3, <1>4 DEF Fresh
  <2> QED BY <1>1, <2>1 DEF PatchInv
<1> QED BY <1>1, <1>2, <1>4 DEF PatchInv

(* The import stores the old host's row, leaves the row alone, or loses it.  *)
LEMMA ImportedIsSafe ==
    ASSUME PatchInv, Set \/ Store \/ BreakOff
    PROVE  PatchInv'
<1>1. UNCHANGED <<state, next, blind>> BY DEF Set, Store, BreakOff
<1>2. CASE row' = OldSettings /\ Stored(Billing)
  <2>1. \A q \in Requests : q # Billing BY MigrateAssumption DEF Billing
  <2>2. row' \in Overrides BY <1>2, MigrateAssumption
  <2>3. /\ state' \in [Requests -> {"new", "read", "write", "writing", "over"}]
        /\ next' \in [Requests -> Overrides] /\ blind' \in [Requests -> BOOLEAN]
    BY <1>1 DEF PatchInv
  <2> QED BY <1>1, <1>2, <2>1, <2>2, <2>3, StoredIsSafe
<1>3. CASE UNCHANGED <<row, stale>> BY <1>1, <1>3 DEF PatchInv, Fresh
<1>4. CASE row' = NoRow /\ UNCHANGED stale BY <1>1, <1>4 DEF PatchInv, Fresh
<1> QED BY <1>2, <1>3, <1>4 DEF Set, Store, BreakOff

PatchSteps ==
    \/ \E q \in Requests : Admit(q) \/ Handle(q)
    \/ Set \/ Store \/ BreakOff

(* Only a PATCH and the import touch the settings.                          *)
LEMMA PatchStepOrNot ==
    ASSUME [Next]_vars
    PROVE  PatchSteps \/ UNCHANGED <<row, state, next, blind, stale>>
<1>1. ASSUME NEW q \in Requests, Serve(q) PROVE PatchSteps BY <1>1 DEF Serve, PatchSteps
<1>2. CASE Clock BY <1>2 DEF Clock, settingVars
<1>3. CASE (\E a \in Accounts : SignUpOld(a)) \/ Used \/ Discover \/ ExportAccounts \/ ExportRest
  BY <1>3 DEF SignUpOld, Used, Use, UseReads, UseStores, Discover, ExportAccounts, ExportRest, settingVars
<1>4. CASE Import
  BY <1>4 DEF Import, StartImport, Get, ReadFile, settingVars, PatchSteps
<1>5. CASE UNCHANGED vars BY <1>5 DEF vars, settingVars
<1> QED BY <1>1, <1>2, <1>3, <1>4, <1>5 DEF Next

(* The settings invariant over every step.                                  *)
LEMMA PatchStep ==
    ASSUME PatchInv, [Next]_vars
    PROVE  PatchInv'
<1>1. CASE UNCHANGED <<row, state, next, blind, stale>> BY <1>1 DEF PatchInv, Fresh
<1>2. ASSUME NEW q \in Requests, Admit(q) \/ Handle(q) PROVE PatchInv'
  BY <1>2, AdmitIsSafe, PatchIsSafe, SaveIsSafe, OpenIsSafe DEF Handle
<1>3. CASE Set \/ Store \/ BreakOff BY <1>3, ImportedIsSafe
<1> QED BY <1>1, <1>2, <1>3, PatchStepOrNot DEF PatchSteps

PatchKeepsStep ==
    \A q \in Requests : Storing(q) /\ row' # row /\ row # NoRow /\ ~blind[q] /\ ~stale[q] =>
        \A f \in Fields \ DOMAIN Input[q] : row'[f] = row[f]

(* The fields a patch does not name keep their value.                       *)
LEMMA PatchChangesItsFields ==
    ASSUME PatchInv, [Next]_vars
    PROVE  PatchKeepsStep
<1> SUFFICES ASSUME NEW q \in Requests, Storing(q), row' # row, row # NoRow, ~blind[q], ~stale[q],
                    NEW f \in Fields \ DOMAIN Input[q]
             PROVE  row'[f] = row[f]
  BY DEF PatchKeepsStep
<1>1. PICK p \in Requests : Admit(p) \/ Handle(p)
  BY PatchStepOrNot DEF PatchSteps, Set, Store, BreakOff, Storing
<1>2. (SetRedis(p) \/ WriteFile(p)) /\ row' = next[p] /\ Over(p)
  BY <1>1 DEF Admit, Handle, Patch, OpenFile, SetRedis, WriteFile
<1>3. p = q BY <1>2, OverIsTyped DEF Storing
<1>4. next[q] = parseBillingPatch(q, row) BY DEF PatchInv, Fresh, Storing
<1>5. parseBillingPatch(q, row)[f] = row[f] BY DEF parseBillingPatch
<1> QED BY <1>2, <1>3, <1>4, <1>5

(* For any number of PATCHes, fields and imports: what a PATCH does not     *)
(* name outlives it, unless its read failed or somebody stored the row in   *)
(* between (saveBilling, parseBillingPatch).                                *)
THEOREM PatchesKeepTheRest == Spec => PatchKeeps
<1>1. Init => PatchInv BY PatchStarts
<1>2. PatchInv /\ [Next]_vars => PatchInv' BY PatchStep
<1>3. PatchInv /\ [Next]_vars => [PatchKeepsStep]_<<row, state>> BY PatchChangesItsFields
<1>4. [][PatchKeepsStep]_<<row, state>> <=> PatchKeeps BY PTL DEF PatchKeeps, PatchKeepsStep
<1> QED BY <1>1, <1>2, <1>3, <1>4, PTL DEF Spec

----------------------------------------------------------------------------
(* The types of what is left: the driver, the export and the import.  The   *)
(* rows still to be imported are rows of the backup because no import is    *)
(* under way while that is made.                                            *)
FlowInv ==
    /\ driver \in {"redis", "file", "memory"} /\ torn \in BOOLEAN
    /\ oldAccounts \subseteq Accounts /\ ids \subseteq Accounts
    /\ export \in {"names", "accounts", "rest", "done"}
    /\ backup \in SUBSET Rows /\ todo \in SUBSET backup
    /\ current \in Rows
    /\ option \in {"plain", "overwrite", "dry"}
    /\ export # "done" => todo = {} /\ step = "idle"

(* Settings, accounts and findings are rows of the store.                   *)
LEMMA AllRows ==
    /\ Billing \in Rows
    /\ \A a \in Accounts : AccountRow(a) \in Rows /\ FindingsRow(a) \in Rows
BY DEF Rows, DestRows, AccountRows

(* Serving an account does not disturb an import.                           *)
LEMMA ServingKeepsFlow ==
    ASSUME FlowInv, NEW q \in Requests, Serve(q)
    PROVE  FlowInv'
<1>1. UNCHANGED <<driver, moveVars>> /\ (torn' = torn \/ torn' = TRUE \/ torn' = FALSE)
  BY DEF Serve, Handle, Admit, Patch, SetRedis, OpenFile, WriteFile
<1> QED BY <1>1 DEF FlowInv, moveVars

(* An export copies rows that are there.                                    *)
LEMMA ExportKeepsFlow ==
    ASSUME FlowInv, (\E a \in Accounts : SignUpOld(a)) \/ Discover \/ ExportAccounts \/ ExportRest
    PROVE  FlowInv'
<1>0. driver' = driver /\ torn' = torn /\ UNCHANGED <<todo, step, current, option>> /\ export # "done"
  BY DEF SignUpOld, Discover, ExportAccounts, ExportRest, settingVars
<1>1. ASSUME NEW a \in Accounts, SignUpOld(a) PROVE FlowInv'
  BY <1>0, <1>1 DEF SignUpOld, FlowInv
<1>2. CASE Discover BY <1>0, <1>2 DEF Discover, FlowInv
<1>3. CASE ExportAccounts
  <2>1. backup' \in SUBSET Rows BY <1>3, AllRows DEF ExportAccounts, FlowInv
  <2> QED BY <1>0, <1>3, <2>1 DEF ExportAccounts, FlowInv
<1>4. CASE ExportRest
  <2>1. backup' \in SUBSET Rows BY <1>4, AllRows DEF ExportRest, FlowInv
  <2> QED BY <1>0, <1>4, <2>1 DEF ExportRest, FlowInv
<1> QED BY <1>1, <1>2, <1>3, <1>4

(* An import writes rows of its backup only.                                *)
LEMMA ImportKeepsFlow ==
    ASSUME FlowInv, Import
    PROVE  FlowInv'
<1>0. UNCHANGED <<driver, oldAccounts, ids, export, backup>>
  BY DEF Import, StartImport, Get, Set, ReadFile, Store, BreakOff, settingVars
<1>1. export = "done"
  BY DEF Import, StartImport, Get, Set, ReadFile, Store, BreakOff, FlowInv
<1>2. torn' \in BOOLEAN
  <2>1. \/ torn' = torn \/ torn' = (torn \/ current = Billing) \/ torn' = FALSE
        \/ torn' = (torn /\ ~(step = "store" /\ current = Billing))
    BY DEF Import, StartImport, Get, Set, ReadFile, Store, BreakOff, settingVars
  <2> QED BY <2>1 DEF FlowInv
<1>3. ASSUME NEW r, Passed(r) PROVE todo' \in SUBSET backup /\ current' \in Rows
                                    /\ option' \in {"plain", "overwrite", "dry"}
  BY <1>3, AllRows DEF Passed, FlowInv
<1>4. todo' \in SUBSET backup /\ current' \in Rows /\ option' \in {"plain", "overwrite", "dry"}
  <2>1. CASE StartImport BY <2>1 DEF StartImport, FlowInv
  <2>2. ASSUME NEW r \in Rows, Get(r)
        PROVE  todo' \in SUBSET backup /\ current' \in Rows /\ option' \in {"plain", "overwrite", "dry"}
    <3>1. CASE Passed(r) BY <3>1, <1>3
    <3>2. CASE ~Passed(r) BY <2>2, <3>2 DEF Get, FlowInv
    <3> QED BY <3>1, <3>2
  <2>3. CASE Set \/ Store BY <2>3, <1>3 DEF Set, Store
  <2>4. CASE ReadFile BY <2>4 DEF ReadFile, FlowInv
  <2>5. CASE BreakOff BY <2>5, AllRows DEF BreakOff
  <2> QED BY <2>1, <2>2, <2>3, <2>4, <2>5 DEF Import
<1> QED BY <1>0, <1>1, <1>2, <1>4 DEF FlowInv

(* Types of the move over every step.                                       *)
LEMMA FlowStep ==
    ASSUME FlowInv, [Next]_vars
    PROVE  FlowInv'
<1>1. ASSUME NEW q \in Requests, Serve(q) PROVE FlowInv' BY <1>1, ServingKeepsFlow
<1>2. CASE (\E a \in Accounts : SignUpOld(a)) \/ Discover \/ ExportAccounts \/ ExportRest
  BY <1>2, ExportKeepsFlow
<1>3. CASE Used
  BY <1>3 DEF Used, Use, UseReads, UseStores, settingVars, FlowInv
<1>4. CASE Import BY <1>4, ImportKeepsFlow
<1>5. CASE Clock BY <1>5 DEF Clock, settingVars, moveVars, FlowInv
<1>6. CASE UNCHANGED vars BY <1>6 DEF vars, settingVars, moveVars, FlowInv
<1> QED BY <1>1, <1>2, <1>3, <1>4, <1>5, <1>6 DEF Next

(* Whatever is stored, a caller is charged within the limit (loadBilling).  *)
LEMMA ChargesAreClamped ==
    ASSUME PatchInv
    PROVE  ChargedInRange
<1> SUFFICES ASSUME NEW over \in Overrides, NEW f \in PctFields PROVE InForce(over)[f] <= MaxPct
  BY ReadIsOverrides DEF ChargedInRange
<1>1. f \in Fields /\ Base[f] <= MaxPct /\ MaxPct \in Nat BY BillingAssumption
<1>2. InForce(over)[f] = IF over[f] = Unset THEN Base[f] ELSE clampPct(f, over[f])
  BY <1>1 DEF InForce
<1>3. ASSUME over[f] # Unset PROVE clampPct(f, over[f]) <= MaxPct
  <2>1. over[f] \in Nat BY <1>1, <1>3, BillingAssumption DEF Overrides
  <2> QED BY <1>1, <2>1 DEF clampPct
<1> QED BY <1>1, <1>2, <1>3

(* All of it keeps its types, for all constants, and no percentage in force *)
(* ever exceeds its limit, whatever a PATCH or an import stored.            *)
THEOREM TypeCorrect == Spec => []TypeOK
<1> DEFINE Inv == BucketSafeInv /\ MoveInv /\ PatchInv /\ FlowInv
<1>1. Init => Inv
  <2>1. ASSUME Init PROVE FlowInv
    BY <2>1, AllRows DEF Init, SettingsInit, FlowInv
  <2> QED BY <2>1, BucketStarts, MoveStarts, PatchStarts DEF Init
<1>2. Inv /\ [Next]_vars => Inv'
  BY BucketStep, MoveStep, PatchStep, FlowStep
<1>3. Inv => TypeOK
  <2> SUFFICES ASSUME Inv PROVE TypeOK OBVIOUS
  <2>1. BucketTypeOK BY DEF BucketSafeInv
  <2>2. SettingsTypeOK BY ChargesAreClamped DEF PatchInv, FlowInv, SettingsTypeOK
  <2> QED BY <2>1, <2>2 DEF MoveInv, FlowInv, TypeOK
<1> QED BY <1>1, <1>2, <1>3, PTL DEF Spec

============================================================================
