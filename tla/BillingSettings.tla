--------------------------- MODULE BillingSettings ---------------------------
(***************************************************************************)
(* The prices the operator changes without a redeploy: GET and PATCH of     *)
(* /api/billing (src/routes/billing.ts, saveBilling and loadBilling of      *)
(* src/billing.ts) behind the rate limit of src/http.ts.  The overrides are *)
(* one row of the namespace "settings".  A PATCH reads it, changes the      *)
(* fields it names and writes it back; a read that fails, or that meets a   *)
(* file being rewritten, counts as no overrides at all.                     *)
(***************************************************************************)
EXTENDS TokenBucket, FiniteSets

CONSTANTS
    Fields,               \* recipient, feePct, ...
    PctFields,            \* those of them that clampPct bounds
    Values,               \* what a field can be set to: naturals
    MaxPct,               \* 25
    Base,                 \* the environment's own value of each field
    Null, Bad,            \* inputs: clear the override, a value the form refuses
    Unset, NoRow,         \* a field without override, no row stored yet
    Requests, Input, CallerOf   \* what each request names, as a function of fields

ASSUME BillingAssumption ==
    /\ Values \subseteq Nat /\ MaxPct \in Nat /\ MaxPct \in Values
    /\ {Null, Bad, Unset, NoRow} \cap Values = {} /\ Null # Bad
    /\ Base \in [Fields -> Values] /\ PctFields \subseteq Fields
    /\ \A f \in PctFields : Base[f] <= MaxPct      \* loadBillingConfig clamps it
    /\ CallerOf \in [Requests -> Callers]
    /\ \A q \in Requests : DOMAIN Input[q] \subseteq Fields
                        /\ \A f \in DOMAIN Input[q] : Input[q][f] \in Values \cup {Null, Bad}
    /\ NoRow \notin [Fields -> Values \cup {Unset}]
    /\ Unset # NoRow

VARIABLES
    driver,    \* what openHash chose for this deployment
    row,       \* the row "billing" of the settings
    torn,      \* the file of the settings is truncated (file driver)
    state,     \* how far each request is
    next,      \* what a PATCH is about to store
    blind,     \* its read found nothing although there was a row
    stale      \* somebody else has stored the row since it was read

settingVars == <<driver, row, torn, state, next, blind, stale>>

Overrides == [Fields -> Values \cup {Unset}]
NoOverrides == [f \in Fields |-> Unset]

SettingsInit ==
    /\ driver \in {"redis", "file", "memory"}
    /\ row \in {NoRow} \cup (IF driver = "memory" THEN {} ELSE {Base})
    /\ torn = FALSE
    /\ state = [q \in Requests |-> "new"]
    /\ next = [q \in Requests |-> NoOverrides]
    /\ blind = [q \in Requests |-> FALSE]
    /\ stale = [q \in Requests |-> FALSE]

----------------------------------------------------------------------------
(* Mutated forms the checks substitute: each is a slip this code could have. *)

PatchFromScratch(q, current) ==
    [f \in Fields |-> IF f \in DOMAIN Input[q] /\ Input[q][f] # Null THEN Input[q][f] ELSE Unset]
TrustStored(f, value) == value

----------------------------------------------------------------------------
clampPct(f, value) == IF f \in PctFields /\ value > MaxPct THEN MaxPct ELSE value

Valid(q) ==
    \A f \in DOMAIN Input[q] :
        Input[q][f] # Bad /\ (f \in PctFields /\ Input[q][f] # Null => Input[q][f] <= MaxPct)

parseBillingPatch(q, current) ==
    [f \in Fields |-> IF f \notin DOMAIN Input[q] THEN current[f]
                      ELSE IF Input[q][f] = Null THEN Unset ELSE Input[q][f]]

(* loadBilling: the environment's defaults with the overrides on top. *)
InForce(over) ==
    [f \in Fields |-> IF over[f] = Unset THEN Base[f] ELSE clampPct(f, over[f])]

(* readOverrides: what a read can answer. *)
Readable == driver # "memory" /\ ~torn /\ row # NoRow
Reads == (IF Readable THEN {row} ELSE {NoOverrides})
            \cup (IF driver # "memory" THEN {NoOverrides} ELSE {})
Missed(current) == row # NoRow /\ current # row

(* What a caller is charged, whatever is stored. *)
ChargedInRange == \A over \in Reads, f \in PctFields : InForce(over)[f] <= MaxPct

SettingsTypeOK ==
    /\ driver \in {"redis", "file", "memory"}
    /\ row \in Overrides \cup {NoRow}
    /\ torn \in BOOLEAN
    /\ state \in [Requests -> {"new", "read", "write", "writing", "over"}]
    /\ next \in [Requests -> Overrides]
    /\ blind \in [Requests -> BOOLEAN]
    /\ stale \in [Requests -> BOOLEAN]
    /\ ChargedInRange

----------------------------------------------------------------------------
(* The rate limit comes first; a GET then only reads. *)
Admit(q) ==
    /\ state[q] = "new"
    /\ \/ /\ Allow(CallerOf[q])
          /\ \E s \in {"read", "over"} : state' = [state EXCEPT ![q] = s]
       \/ Deny(CallerOf[q]) /\ UNCHANGED state
    /\ UNCHANGED <<driver, row, torn, next, blind, stale>>

(* saveBilling up to the set: an invalid patch, and a deployment without    *)
(* durable storage, are refused after the read.                             *)
Patch(q) ==
    /\ state[q] = "read"
    /\ IF Valid(q) /\ driver # "memory"
       THEN \E current \in Reads :
              /\ next' = [next EXCEPT ![q] = parseBillingPatch(q, current)]
              /\ blind' = [blind EXCEPT ![q] = Missed(current)]
              /\ state' = [state EXCEPT ![q] = "write"]
       ELSE state' = [state EXCEPT ![q] = "over"] /\ UNCHANGED <<next, blind>>
    /\ UNCHANGED <<driver, row, torn, stale>>

(* The request is answered or has failed; its locals are gone. *)
Over(q) ==
    /\ state' = [state EXCEPT ![q] = "over"]
    /\ next' = [next EXCEPT ![q] = NoOverrides]
    /\ blind' = [blind EXCEPT ![q] = FALSE]

(* Everybody else who has read the row and not stored it holds an old copy. *)
Stored(p) ==
    stale' = [q \in Requests |-> q # p /\ (stale[q] \/ state[q] \in {"write", "writing"})]

(* HSET lands or not; saveBilling then reads again, which changes nothing. *)
SetRedis(q) ==
    /\ state[q] = "write" /\ driver = "redis"
    /\ \/ row' = next[q] /\ Stored(q)
       \/ row' = row /\ stale' = [stale EXCEPT ![q] = FALSE]
    /\ Over(q)
    /\ UNCHANGED <<driver, torn>>

(* FileHash.set: one write of the process at a time, truncating first. *)
OpenFile(q) ==
    /\ state[q] = "write" /\ driver = "file"
    /\ \A p \in Requests : state[p] # "writing"
    /\ torn' = TRUE
    /\ state' = [state EXCEPT ![q] = "writing"]
    /\ UNCHANGED <<driver, row, next, blind, stale>>

WriteFile(q) ==
    /\ state[q] = "writing"
    /\ torn' = FALSE
    /\ row' = next[q] /\ Stored(q)
    /\ Over(q)
    /\ UNCHANGED driver

Handle(q) == Patch(q) \/ SetRedis(q) \/ OpenFile(q) \/ WriteFile(q)

----------------------------------------------------------------------------
(* A price or a payout address that a PATCH does not name outlives it:       *)
(* whoever changes such a field held a copy of the row that was empty       *)
(* (its read failed) or old (another request or an import stored the row     *)
(* after it was read).  parseBillingPatch: "Only the fields present are     *)
(* touched", and an override is never dropped in silence otherwise.         *)
Storing(q) == state[q] \in {"write", "writing"} /\ state'[q] = "over"
PatchKeeps ==
    [][\A q \in Requests : Storing(q) /\ row' # row /\ row # NoRow /\ ~blind[q] /\ ~stale[q] =>
          \A f \in Fields \ DOMAIN Input[q] : row'[f] = row[f]]_<<row, state>>
============================================================================
