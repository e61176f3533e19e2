------------------------------- MODULE KvFile -------------------------------
(***************************************************************************)
(* FileHash of src/kv.ts: a namespace kept as one JSON file.  Every write   *)
(* reads the whole file, changes a row and writes the whole file back; the  *)
(* writes of a process are chained on a promise so that they never overlap. *)
(* writeFile truncates before it writes, and a file that does not parse, or *)
(* cannot be read at all, is an empty namespace.  A read may fail, a write  *)
(* may fail half way, and the process may die and restart between any two   *)
(* steps.                                                                   *)
(***************************************************************************)
EXTENDS Integers, FiniteSets

CONSTANTS
    Keys, Values, NoValue, Ops, Op,
    Torn,                 \* the content of a file that does not parse
    MaxFaults             \* bound: failed reads, writes failing half way, deaths of the process

ASSUME KvFileAssumption ==
    /\ NoValue \notin Values
    /\ \A o \in Ops : /\ Op[o].kind \in {"set", "delete", "clear"}
                      /\ Op[o].keys \subseteq Keys /\ Op[o].value \in Values
    /\ Torn \notin [Keys -> Values \cup {NoValue}]
    /\ MaxFaults \in Nat

VARIABLES
    file,      \* what is on disk
    state,     \* how far each call is
    waits,     \* the calls each call is chained after (this.queue)
    work,      \* the rows a running write has read and changed
    faults     \* how many of its faults the world has used

vars == <<file, state, waits, work, faults>>

Rows == [Keys -> Values \cup {NoValue}]
Empty == [k \in Keys |-> NoValue]

States == {"new", "queued", "ready", "writing", "done", "failed", "lost"}
Pending == {"queued", "ready", "writing"}

TypeOK ==
    /\ file \in Rows \cup {Torn}
    /\ state \in [Ops -> States]
    /\ waits \in [Ops -> SUBSET Ops]
    /\ work \in [Ops -> Rows]
    /\ faults \in Nat

----------------------------------------------------------------------------
(* Mutated forms the checks substitute: each is a slip this code could have. *)

NoTurn(o) == TRUE
TurnAfterSuccess(o) == \A p \in waits[o] : state[p] \in {"done", "lost"}
EffectOneRow(o, r) == [k \in Op[o].keys |-> Op[o].value]

----------------------------------------------------------------------------
(* read(): a missing or corrupt file is an empty namespace. *)
Parse(f) == IF f = Torn THEN Empty ELSE f

Effect(o, r) ==
    CASE Op[o].kind = "set" -> [k \in Keys |-> IF k \in Op[o].keys THEN Op[o].value ELSE r[k]]
      [] Op[o].kind = "delete" -> [k \in Keys |-> IF k \in Op[o].keys THEN NoValue ELSE r[k]]
      [] OTHER -> Empty

Init ==
    /\ file = Empty
    /\ state = [o \in Ops |-> "new"]
    /\ waits = [o \in Ops |-> {}]
    /\ work = [o \in Ops |-> Empty]
    /\ faults = 0

----------------------------------------------------------------------------
(* serialize(): the call runs once everything queued before it has settled, *)
(* whether that succeeded or failed.                                        *)
Call(o) ==
    /\ state[o] = "new"
    /\ state' = [state EXCEPT ![o] = "queued"]
    /\ waits' = [waits EXCEPT ![o] = {p \in Ops : state[p] \in Pending}]
    /\ UNCHANGED <<file, work, faults>>

Turn(o) == \A p \in waits[o] : state[p] \notin Pending

(* read() and the change to the row, up to the first await of write(). *)
Read(o) ==
    /\ state[o] = "queued"
    /\ Turn(o)
    /\ work' = [work EXCEPT ![o] = Effect(o, Parse(file))]
    /\ state' = [state EXCEPT ![o] = "ready"]
    /\ UNCHANGED <<file, waits, faults>>

(* readFile is rejected (no descriptor left, an I/O error): read() answers  *)
(* an empty namespace all the same, and the write goes on from that.        *)
ReadFails(o) ==
    /\ state[o] = "queued"
    /\ Turn(o)
    /\ Op[o].kind # "clear"                \* clear() reads nothing
    /\ faults < MaxFaults
    /\ faults' = faults + 1
    /\ work' = [work EXCEPT ![o] = Effect(o, Empty)]
    /\ state' = [state EXCEPT ![o] = "ready"]
    /\ UNCHANGED <<file, waits>>

(* mkdir and the opening of the file, which truncates it; either may fail. *)
Open(o) ==
    /\ state[o] = "ready"
    /\ \/ file' = Torn /\ state' = [state EXCEPT ![o] = "writing"]
       \/ file' = file /\ state' = [state EXCEPT ![o] = "failed"]
    /\ UNCHANGED <<waits, work, faults>>

Write(o) ==
    /\ state[o] = "writing"
    /\ file' = work[o]
    /\ state' = [state EXCEPT ![o] = "done"]
    /\ UNCHANGED <<waits, work, faults>>

(* A full disk: the write is rejected with the file already truncated. *)
WriteFails(o) ==
    /\ state[o] = "writing"
    /\ faults < MaxFaults
    /\ faults' = faults + 1
    /\ state' = [state EXCEPT ![o] = "failed"]
    /\ UNCHANGED <<file, waits, work>>

(* The process dies; what it had not written is gone, the file is not. *)
Crash ==
    /\ faults < MaxFaults
    /\ faults' = faults + 1
    /\ state' = [o \in Ops |-> IF state[o] \in Pending THEN "lost" ELSE state[o]]
    /\ UNCHANGED <<file, waits, work>>

Step(o) == Read(o) \/ ReadFails(o) \/ Open(o) \/ Write(o) \/ WriteFails(o)

Next == (\E o \in Ops : Call(o) \/ Step(o)) \/ Crash

Spec == Init /\ [][Next]_vars

(* File system calls answer, well or badly. *)
FairSpec == Spec /\ \A o \in Ops : WF_vars(Step(o))

----------------------------------------------------------------------------
(* As long as no read has failed, no write has failed half way and the      *)
(* process has not died, the file is the map KvHash promises: a write takes *)
(* effect when it opens the file, on all that was saved before it, and no   *)
(* update of another call is lost to it.  A failed read ends that: the      *)
(* write behind it leaves nothing in the file but its own row.              *)
Writer == CHOOSE o \in Ops : state[o] = "writing"
AbstractRows ==
    IF file # Torn THEN file ELSE IF faults > 0 THEN Empty ELSE work[Writer]
AbstractStatus ==
    [o \in Ops |-> IF state[o] \in {"queued", "ready"} THEN "pending"
                   ELSE IF state[o] = "writing" THEN "applied" ELSE state[o]]

Map == INSTANCE KvHash WITH rows <- AbstractRows, status <- AbstractStatus
NothingLost == Map!Init /\ [][faults' = 0 => Map!Next]_(Map!vars)

(* A row that was saved, and that no other call has touched, can be read    *)
(* back whenever no write is under way.  Two things break this: a death of  *)
(* the process, or a failure, in the middle of a write (the file reads as   *)
(* empty from then on), and a failed read in a write of another row.        *)
Touches(p, o) == Op[p].kind = "clear" \/ Op[p].keys \cap Op[o].keys # {}
Saved(o) ==
    /\ state[o] = "done" /\ Op[o].kind = "set"
    /\ \A p \in Ops \ {o} : Touches(p, o) => state[p] = "new"
SavedRowsSurvive ==
    (\A o \in Ops : state[o] # "writing") =>
        \A o \in Ops : Saved(o) => \A k \in Op[o].keys : Parse(file)[k] = Op[o].value

(* The same, until the first such fault: the part of the promise the queue  *)
(* is there to keep.                                                        *)
SavedRowsStay == faults = 0 => SavedRowsSurvive

(* Every write a process has queued settles, even behind one that failed.   *)
EveryWriteSettles == \A o \in Ops : state[o] \in Pending ~> state[o] \notin Pending

(* The strengthening the refinement proof uses: at most one write has left  *)
(* the queue, and it is working on what the file holds.                     *)
OneAtATime ==
    /\ \A o, p \in Ops : p \in waits[o] => state[p] # "new"
    /\ \A o, p \in Ops : state[o] \in Pending /\ state[p] \in Pending /\ o # p
                            => (o \in waits[p]) # (p \in waits[o])
    /\ \A o, p \in Ops : state[o] \in {"ready", "writing"} /\ state[p] \in Pending /\ p # o
                            => o \in waits[p] /\ state[p] = "queued"
    /\ \A o \in Ops : state[o] = "ready" => file # Torn /\ work[o] = Effect(o, file)
    /\ (file = Torn) <=> \E o \in Ops : state[o] = "writing"

(* Where a saved row is: in the file, or, while a write has the file open,  *)
(* in the rows that write is about to put there.                            *)
SavedRowsThere ==
    /\ \A o \in Ops : Saved(o) => \A k \in Op[o].keys :
          /\ file # Torn => file[k] = Op[o].value
          /\ \A w \in Ops : state[w] = "writing" => work[w][k] = Op[o].value
    /\ \A o \in Ops : state[o] = "writing" /\ Op[o].kind = "set" =>
          \A k \in Op[o].keys : work[o][k] = Op[o].value
KeptSoFar == faults = 0 => SavedRowsThere
============================================================================
