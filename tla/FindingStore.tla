---------------------------- MODULE FindingStore ----------------------------
(***************************************************************************)
(* The history of found mints: HashFindingStore and recordFinding of        *)
(* src/store.ts, mergeFinding of src/findings.ts, and the two routes that   *)
(* write it, the hunt round (which records its findings together, each on   *)
(* its own contract) and GET/DELETE /api/findings (which prices rows it has *)
(* listed).  A put is five store commands, an update comes after a          *)
(* marketplace call, and nothing locks a row in between.  On the file       *)
(* driver (FileHash of src/kv.ts) reads do not even wait for a write that   *)
(* has truncated the file: they find an empty namespace, as they do when    *)
(* readFile fails.                                                          *)
(***************************************************************************)
EXTENDS Integers, FiniteSets

CONSTANTS
    Contracts, NoContract, NoRow,
    Recorders,            \* recordFinding calls that can be under way
    Pricers,              \* GET /api/findings requests that can be under way
    MaxRecords,           \* MAX_RECORDS
    MaxRounds, MaxFails   \* bounds of the model

VARIABLES
    now,         \* counts the findings recorded; orders lastSeenAt
    rows,        \* the namespace
    rec, pricer, \* locals of the calls under way
    fails,       \* puts that threw, or ended untrimmed because they read nothing
    sightings, everPassed, \* what really happened to each row kept
    puts,        \* puts of each contract that landed, ever
    overwritten, \* rows whose newer version a price look-up wrote over
    unread,      \* rows a put wrote over although it had found none
    onFile       \* the namespace is a file, and no redis hash or Map

storeVars == <<now, rows, rec, pricer, fails, sightings, everPassed, puts, overwritten, unread, onFile>>

Unknown == -1         \* `minted` of a round that did not try to buy
Findings == [seen : Nat, first : Nat, last : Nat, passed : BOOLEAN,
             minted : {Unknown, 0, 1}, floor : BOOLEAN]

ASSUME FindingStoreAssumption ==
    /\ NoContract \notin Contracts /\ NoRow \notin Findings
    /\ MaxRecords \in Nat \ {0} /\ MaxRounds \in Nat /\ MaxFails \in Nat

Cells == Findings \cup {NoRow}

RecSteps == {"idle", "get", "set", "size", "readAll", "delete"}
IdleRec == [step |-> "idle", contract |-> NoContract, new |-> NoRow, old |-> NoRow, stale |-> {}]
IdlePricer == [contract |-> NoContract, row |-> NoRow]

StoreTypeOK ==
    /\ now \in Nat /\ fails \in Nat
    /\ rows \in [Contracts -> Cells]
    /\ rec \in [Recorders -> [step : RecSteps, contract : Contracts \cup {NoContract},
                              new : Cells, old : Cells, stale : SUBSET Contracts]]
    /\ pricer \in [Pricers -> [contract : Contracts \cup {NoContract}, row : Cells]]
    /\ sightings \in [Contracts -> Nat]
    /\ everPassed \in [Contracts -> BOOLEAN]
    /\ puts \in [Contracts -> Nat]
    /\ overwritten \subseteq Contracts /\ unread \subseteq Contracts
    /\ onFile \in BOOLEAN

StoreInit ==
    /\ now = 0 /\ fails = 0
    /\ rows = [c \in Contracts |-> NoRow]
    /\ rec = [r \in Recorders |-> IdleRec]
    /\ pricer = [p \in Pricers |-> IdlePricer]
    /\ sightings = [c \in Contracts |-> 0]
    /\ everPassed = [c \in Contracts |-> FALSE]
    /\ puts = [c \in Contracts |-> 0]
    /\ overwritten = {} /\ unread = {}
    /\ onFile \in BOOLEAN

Kept == {c \in Contracts : rows[c] # NoRow}

----------------------------------------------------------------------------
(* Mutated forms the checks substitute: each is a slip this code could have. *)

mergeLatest(old, new) == [new EXCEPT !.first = old.first, !.seen = old.seen + 1]
StaleOffByOne(stale) ==
    /\ stale \subseteq Kept
    /\ Cardinality(Kept \ stale) = MaxRecords + 1
    /\ \A c \in stale, d \in Kept \ stale : rows[c].last <= rows[d].last

----------------------------------------------------------------------------
(* mergeFinding *)
mergeFinding(old, new) ==
    [new EXCEPT !.first = old.first,
                !.seen = old.seen + 1,
                !.passed = old.passed \/ new.passed,
                !.minted = IF new.minted = Unknown THEN old.minted ELSE new.minted,
                !.floor = old.floor \/ new.floor]

(* What sortAndCap leaves out: all but the MaxRecords last seen. *)
Stale(stale) ==
    /\ stale \subseteq Kept
    /\ Cardinality(Kept \ stale) = MaxRecords
    /\ \A c \in stale, d \in Kept \ stale : rows[c].last <= rows[d].last

(* A round records a finding; the contracts of its candidates differ, and    *)
(* the 'hunt' lock keeps two rounds from recording one contract together.    *)
Start(r, c) ==
    /\ rec[r].step = "idle"
    /\ now < MaxRounds
    /\ \A s \in Recorders : rec[s].contract # c
    /\ now' = now + 1
    /\ \E passed \in BOOLEAN, minted \in {Unknown, 0, 1} :
          /\ ~passed => minted = Unknown
          /\ rec' = [rec EXCEPT ![r] = [IdleRec EXCEPT !.step = "get", !.contract = c,
                !.new = [seen |-> 1, first |-> now, last |-> now, passed |-> passed,
                         minted |-> minted, floor |-> FALSE]]]
    /\ UNCHANGED <<rows, pricer, fails, sightings, everPassed, puts, overwritten, unread, onFile>>

(* On the file driver a read may meet the file truncated by a put or a trim *)
(* of the round, by a look-up or a clear, or it may fail: it answers as if  *)
(* there were no rows.                                                      *)
Reads(row) == {row} \cup IF onFile THEN {NoRow} ELSE {}

Get(r) ==
    /\ rec[r].step = "get"
    /\ \E old \in Reads(rows[rec[r].contract]) :
          rec' = [rec EXCEPT ![r] = [@ EXCEPT !.step = "set", !.old = old]]
    /\ UNCHANGED <<now, rows, pricer, fails, sightings, everPassed, puts, overwritten, unread, onFile>>

Put(r) ==
    LET c == rec[r].contract
        new == rec[r].new
    IN
    /\ rec[r].step = "set"
    /\ rows' = [rows EXCEPT ![c] = IF rec[r].old = NoRow THEN new
                                   ELSE mergeFinding(rec[r].old, new)]
    /\ sightings' = [sightings EXCEPT ![c] = @ + 1]
    /\ puts' = [puts EXCEPT ![c] = @ + 1]
    /\ everPassed' = [everPassed EXCEPT ![c] = @ \/ new.passed]
    /\ unread' = IF rec[r].old = NoRow /\ rows[c] # NoRow THEN unread \cup {c} ELSE unread
    /\ rec' = [rec EXCEPT ![r] = [@ EXCEPT !.step = "size"]]
    /\ UNCHANGED <<now, pricer, fails, overwritten, onFile>>

(* The size or the list comes back empty, and the put ends without a trim.  *)
FindsNothing(r) ==
    /\ onFile
    /\ fails < MaxFails
    /\ fails' = fails + 1
    /\ rec' = [rec EXCEPT ![r] = IdleRec]

Size(r) ==
    /\ rec[r].step = "size"
    /\ \/ /\ Cardinality(Kept) > MaxRecords
          /\ rec' = [rec EXCEPT ![r] = [@ EXCEPT !.step = "readAll"]]
          /\ UNCHANGED fails
       \/ /\ Cardinality(Kept) <= MaxRecords
          /\ rec' = [rec EXCEPT ![r] = IdleRec]
          /\ UNCHANGED fails
       \/ FindsNothing(r)
    /\ UNCHANGED <<now, rows, pricer, sightings, everPassed, puts, overwritten, unread, onFile>>

ReadAll(r) ==
    /\ rec[r].step = "readAll"
    /\ \/ \E stale \in SUBSET Contracts :
             /\ Stale(stale)
             /\ rec' = [rec EXCEPT ![r] = [@ EXCEPT !.step = "delete", !.stale = stale]]
             /\ UNCHANGED fails
       \/ /\ Cardinality(Kept) < MaxRecords
          /\ rec' = [rec EXCEPT ![r] = IdleRec]
          /\ UNCHANGED fails
       \/ FindsNothing(r)
    /\ UNCHANGED <<now, rows, pricer, sightings, everPassed, puts, overwritten, unread, onFile>>

(* Rows removed from the namespace take what happened to them along. *)
Remove(gone) ==
    /\ rows' = [c \in Contracts |-> IF c \in gone THEN NoRow ELSE rows[c]]
    /\ sightings' = [c \in Contracts |-> IF c \in gone THEN 0 ELSE sightings[c]]
    /\ everPassed' = [c \in Contracts |-> c \notin gone /\ everPassed[c]]
    /\ overwritten' = overwritten \ gone
    /\ unread' = unread \ gone

Delete(r) ==
    /\ rec[r].step = "delete"
    /\ Remove(rec[r].stale)
    /\ rec' = [rec EXCEPT ![r] = IdleRec]
    /\ UNCHANGED <<now, pricer, fails, puts, onFile>>

(* A store command throws: recordFinding logs it and the round goes on. *)
Fail(r) ==
    /\ rec[r].step # "idle"
    /\ fails < MaxFails
    /\ fails' = fails + 1
    /\ rec' = [rec EXCEPT ![r] = IdleRec]
    /\ UNCHANGED <<now, rows, pricer, sightings, everPassed, puts, overwritten, unread, onFile>>

(* DELETE /api/findings *)
Clear ==
    /\ Kept # {}
    /\ Remove(Contracts)
    /\ UNCHANGED <<now, rec, pricer, fails, puts, onFile>>

(* On the file driver a write that fails half way, or whose own read fails, *)
(* takes every row along that it does not put there itself: the file that   *)
(* is left, or opened, holds none of them.                                  *)
Lose ==
    /\ onFile /\ Kept # {}
    /\ \/ \E r \in Recorders : rec[r].step \in {"set", "delete"}
       \/ \E p \in Pricers : pricer[p].contract # NoContract
    /\ Remove(Contracts)
    /\ UNCHANGED <<now, rec, pricer, fails, puts, onFile>>

(* GET /api/findings lists the rows, asks the marketplace for a floor of one *)
(* that was not bought, and writes the row it listed back with the floor.    *)
List(p, c) ==
    /\ pricer[p].contract = NoContract
    /\ c \in Kept
    /\ rows[c].minted # 1
    /\ pricer' = [pricer EXCEPT ![p] = [contract |-> c, row |-> rows[c]]]
    /\ UNCHANGED <<now, rows, rec, fails, sightings, everPassed, puts, overwritten, unread, onFile>>

Update(p) ==
    LET c == pricer[p].contract
    IN
    /\ c # NoContract
    /\ \/ /\ rows' = [rows EXCEPT ![c] = [pricer[p].row EXCEPT !.floor = TRUE]]
          /\ overwritten' = IF rows[c] = pricer[p].row THEN overwritten
                            ELSE overwritten \cup {c}
       \/ UNCHANGED <<rows, overwritten>>     \* no floor found, or the write failed
    /\ pricer' = [pricer EXCEPT ![p] = IdlePricer]
    /\ UNCHANGED <<now, rec, fails, sightings, everPassed, puts, unread, onFile>>

Recorder(r) ==
    \/ \E c \in Contracts : Start(r, c)
    \/ Get(r) \/ Put(r) \/ Size(r) \/ ReadAll(r) \/ Delete(r) \/ Fail(r)

StoreNext ==
    \/ \E r \in Recorders : Recorder(r)
    \/ Clear \/ Lose
    \/ \E p \in Pricers : Update(p) \/ \E c \in Contracts : List(p, c)

StoreSpec == StoreInit /\ [][StoreNext]_storeVars

----------------------------------------------------------------------------
(* However puts, trims, clears, failures and price look-ups interleave: no  *)
(* row counts more rounds than really recorded it ("update, not put"); and  *)
(* no kept row forgets that the collection once passed ("Never lose the     *)
(* fact that it was ... once passed") or leaves a sighting out, unless it   *)
(* was written over by a call that had not read it: a look-up that had      *)
(* listed an older version, or, on the file driver, a put that found no row *)
(* because another call was rewriting the file.                             *)
Forgotten == overwritten \cup IF onFile THEN unread ELSE {}
HistoryKept ==
    \A c \in Kept :
        /\ rows[c].seen <= puts[c]
        /\ c \notin Forgotten =>
              (everPassed[c] => rows[c].passed) /\ rows[c].seen >= sightings[c]

(* Between puts the history is within its cap, up to one row for every put  *)
(* that threw before it could trim, for every put whose size or list came   *)
(* back empty, and for every removed row that a price look-up brought back. *)
CapAtRest ==
    (\A r \in Recorders : rec[r].step = "idle") =>
        Cardinality(Kept) <= MaxRecords + fails + Cardinality(overwritten)
============================================================================
