----------------------------- MODULE StoreProofs -----------------------------
(* FileHash implements KvHash for any keys, values and calls, as long as no *)
(* read fails, no write fails half way and the process does not die: the    *)
(* promise chain is what keeps one read-modify-write from losing another.   *)
(* The history of findings, which takes no such turns, still keeps of a row *)
(* what its puts have read, and stays within its cap but for the puts that  *)
(* could not trim, for any contracts, rounds and requests.                  *)
EXTENDS KvFile, FindingStore, FiniteSetTheorems, TLAPS

(* What a write computes from rows is rows again. *)
LEMMA EffectType ==
    ASSUME NEW o \in Ops, NEW r \in Rows
    PROVE  Effect(o, r) \in Rows
BY KvFileAssumption DEF Effect, Rows, Empty

(* A file that does not parse reads as an empty namespace, never an error. *)
LEMMA ParseType ==
    ASSUME NEW f \in Rows \cup {Torn}
    PROVE  Parse(f) \in Rows
BY DEF Parse, Empty, Rows

(* Every reachable state of the file driver is well typed, faults included. *)
THEOREM TypeCorrect == Spec => []TypeOK
<1>1. Init => TypeOK
  BY DEF Init, TypeOK, Rows, Empty, States
<1>2. TypeOK /\ [Next]_vars => TypeOK'
  <2> SUFFICES ASSUME TypeOK, [Next]_vars PROVE TypeOK'
    OBVIOUS
  <2> USE DEF TypeOK, States
  <2>1. ASSUME NEW o \in Ops, Call(o) PROVE TypeOK'
    BY <2>1 DEF Call
  <2>2. ASSUME NEW o \in Ops, Read(o) PROVE TypeOK'
    <3>1. Effect(o, Parse(file)) \in Rows BY EffectType, ParseType
    <3> QED BY <2>2, <3>1 DEF Read
  <2>3. ASSUME NEW o \in Ops, Open(o) PROVE TypeOK'
    BY <2>3 DEF Open
  <2>4. ASSUME NEW o \in Ops, Write(o) PROVE TypeOK'
    BY <2>4 DEF Write
  <2>5. ASSUME NEW o \in Ops, WriteFails(o) PROVE TypeOK'
    BY <2>5 DEF WriteFails
  <2>6. ASSUME NEW o \in Ops, ReadFails(o) PROVE TypeOK'
    <3>1. Empty \in Rows BY DEF Empty, Rows
    <3>2. Effect(o, Empty) \in Rows BY <3>1, EffectType
    <3> QED BY <2>6, <3>2 DEF ReadFails
  <2>7. CASE Crash BY <2>7 DEF Crash
  <2>8. CASE UNCHANGED vars BY <2>8 DEF vars
  <2> QED BY <2>1, <2>2, <2>3, <2>4, <2>5, <2>6, <2>7, <2>8 DEF Next, Step
<1> QED BY <1>1, <1>2, PTL DEF Spec

(* Before the first fault, a step is a call or one step of one write.       *)
LEMMA NoFaultNext ==
    ASSUME TypeOK, [Next]_vars, faults' = 0
    PROVE  /\ faults = 0
           /\ \/ \E o \in Ops : Call(o) \/ Read(o) \/ Open(o) \/ Write(o)
              \/ UNCHANGED vars
BY DEF TypeOK, Next, Step, Call, Read, ReadFails, Open, Write, WriteFails, Crash, vars

(* The chain keeps writes apart: at most one has left the queue. *)
LEMMA OneAtATimeHolds == Spec => [](faults = 0 => OneAtATime)
<1>1. Init => OneAtATime
  BY KvFileAssumption DEF Init, OneAtATime, Rows, Empty, Pending
<1>2. TypeOK /\ (faults = 0 => OneAtATime) /\ [Next]_vars => (faults = 0 => OneAtATime)'
  <2> SUFFICES ASSUME TypeOK, faults = 0 => OneAtATime, [Next]_vars, faults' = 0
               PROVE  OneAtATime'
    OBVIOUS
  <2>0. OneAtATime BY NoFaultNext
  <2> USE <2>0
  <2> USE DEF TypeOK, Pending
  <2>1. ASSUME NEW o \in Ops, Call(o) PROVE OneAtATime'
    BY <2>1 DEF Call, OneAtATime
  <2>2. ASSUME NEW o \in Ops, Read(o) PROVE OneAtATime'
    <3>1. state' = [state EXCEPT ![o] = "ready"] /\ state[o] = "queued" /\ waits' = waits
      BY <2>2 DEF Read
    <3>2. \A p \in Ops : state[p] \in Pending /\ p # o => p \notin waits[o]
      BY <2>2 DEF Read, Turn
    <3>3. \A p \in Ops : state[p] \in Pending /\ p # o => o \in waits[p] /\ state[p] = "queued"
      BY <3>1, <3>2 DEF OneAtATime
    <3>4. file # Torn BY <3>1, <3>3 DEF OneAtATime
    <3>5. file' = file /\ work' = [work EXCEPT ![o] = Effect(o, file)]
      BY <2>2, <3>4 DEF Read, Parse
    <3>6. work'[o] = Effect(o, file) /\ \A p \in Ops : p # o => work'[p] = work[p]
      BY <3>5
    <3>7. /\ \A p, q \in Ops : p \in waits'[q] => state'[p] # "new"
          /\ \A p, q \in Ops : state'[p] \in Pending /\ state'[q] \in Pending /\ p # q
                            => (p \in waits'[q]) # (q \in waits'[p])
      BY <3>1 DEF OneAtATime
    <3>8. \A p, q \in Ops : state'[p] \in {"ready", "writing"} /\ state'[q] \in Pending /\ q # p
                            => p \in waits'[q] /\ state'[q] = "queued"
      BY <3>1, <3>3
    <3>9. \A p \in Ops : state'[p] = "ready" => p = o
      BY <3>1, <3>3
    <3>10. (file' = Torn) <=> \E p \in Ops : state'[p] = "writing"
      BY <3>1, <3>4, <3>5 DEF OneAtATime
    <3>11. ASSUME NEW p \in Ops, state'[p] = "ready" PROVE file' # Torn /\ work'[p] = Effect(p, file')
      BY <3>4, <3>5, <3>6, <3>9, <3>11
    <3> QED BY <3>7, <3>8, <3>10, <3>11 DEF OneAtATime, Effect
  <2>3. ASSUME NEW o \in Ops, Open(o) PROVE OneAtATime'
    <3>1. state[o] = "ready" /\ waits' = waits /\ work' = work BY <2>3 DEF Open
    <3>2. \A p \in Ops : state[p] \in Pending /\ p # o => o \in waits[p] /\ state[p] = "queued"
      BY <3>1 DEF OneAtATime
    <3>3. file # Torn BY <3>1 DEF OneAtATime
    <3>4. \E s \in {"writing", "failed"} :
              /\ state' = [state EXCEPT ![o] = s]
              /\ file' = IF s = "writing" THEN Torn ELSE file
      BY <2>3 DEF Open
    <3>5. /\ \A p, q \in Ops : p \in waits'[q] => state'[p] # "new"
          /\ \A p, q \in Ops : state'[p] \in Pending /\ state'[q] \in Pending /\ p # q
                            => (p \in waits'[q]) # (q \in waits'[p])
      BY <3>1, <3>4 DEF OneAtATime
    <3>6. \A p, q \in Ops : state'[p] \in {"ready", "writing"} /\ state'[q] \in Pending /\ q # p
                            => p \in waits'[q] /\ state'[q] = "queued"
      BY <3>1, <3>2, <3>4
    <3>7. \A p \in Ops : state'[p] # "ready"
      BY <3>2, <3>4
    <3>8. (file' = Torn) <=> \E p \in Ops : state'[p] = "writing"
      BY <3>2, <3>3, <3>4
    <3> QED BY <3>5, <3>6, <3>7, <3>8 DEF OneAtATime
  <2>4. ASSUME NEW o \in Ops, Write(o) PROVE OneAtATime'
    <3>1. /\ state[o] = "writing" /\ state' = [state EXCEPT ![o] = "done"]
          /\ file' = work[o] /\ waits' = waits /\ work' = work
      BY <2>4 DEF Write
    <3>2. \A p \in Ops : state[p] \in Pending /\ p # o => state[p] = "queued"
      BY <3>1 DEF OneAtATime
    <3>3. file' # Torn BY <3>1, KvFileAssumption DEF Rows
    <3>4. /\ \A p, q \in Ops : p \in waits'[q] => state'[p] # "new"
          /\ \A p, q \in Ops : state'[p] \in Pending /\ state'[q] \in Pending /\ p # q
                            => (p \in waits'[q]) # (q \in waits'[p])
      BY <3>1 DEF OneAtATime
    <3>5. \A p \in Ops : state'[p] \notin {"ready", "writing"} BY <3>1, <3>2
    <3> QED BY <3>3, <3>4, <3>5 DEF OneAtATime
  <2>5. CASE UNCHANGED vars BY <2>5 DEF vars, OneAtATime, Effect, Empty
  <2> QED BY <2>1, <2>2, <2>3, <2>4, <2>5, NoFaultNext
<1> QED BY <1>1, <1>2, TypeCorrect, PTL DEF Spec

(* While a write has the file open, it is the one AbstractRows looks at. *)
LEMMA WriterIs ==
    ASSUME OneAtATime, NEW o \in Ops, state[o] = "writing"
    PROVE  Writer = o
<1>1. \A p \in Ops : state[p] = "writing" => p = o
  BY DEF OneAtATime, Pending
<1> QED BY <1>1 DEF Writer

(* The status a caller of KvHash sees, call by call. *)
LEMMA StatusOf ==
    ASSUME NEW o \in Ops
    PROVE  AbstractStatus[o] = IF state[o] \in {"queued", "ready"} THEN "pending"
                               ELSE IF state[o] = "writing" THEN "applied" ELSE state[o]
BY DEF AbstractStatus

(* Up to the first fault, every behaviour of the file driver is a behaviour *)
(* of the map: writes are atomic and none is lost.                          *)
THEOREM FileImplementsHash == Spec => NothingLost
<1>1. Init => Map!Init
  BY KvFileAssumption DEF Init, Map!Init, AbstractRows, AbstractStatus, Map!Empty, Empty, Rows
<1>2. /\ TypeOK /\ (faults = 0 => OneAtATime) /\ (faults = 0 => OneAtATime)' /\ [Next]_vars
      => [faults' = 0 => Map!Next]_(Map!vars)
  <2> SUFFICES ASSUME TypeOK, OneAtATime, OneAtATime', [Next]_vars, faults = 0, faults' = 0
               PROVE  Map!Next \/ UNCHANGED <<AbstractRows, AbstractStatus>>
    BY NoFaultNext DEF Map!vars
  <2>1. ASSUME NEW o \in Ops, Call(o) PROVE Map!Call(o)
    <3>1. state[o] = "new" /\ state' = [state EXCEPT ![o] = "queued"] /\ file' = file /\ work' = work
      BY <2>1 DEF Call
    <3>2. AbstractStatus[o] = "new"
      BY <3>1, StatusOf
    <3>3. AbstractStatus' = [AbstractStatus EXCEPT ![o] = "pending"]
      BY <3>1 DEF AbstractStatus, TypeOK
    <3>4. AbstractRows' = AbstractRows
      <4>1. CASE file # Torn BY <3>1, <4>1 DEF AbstractRows
      <4>2. CASE file = Torn
        <5>1. PICK w \in Ops : state[w] = "writing" BY <4>2 DEF OneAtATime
        <5>2. state'[w] = "writing" BY <3>1, <5>1 DEF TypeOK
        <5>3. Writer = w BY <5>1, WriterIs
        <5>4. Writer' = w
          <6>1. \A p \in Ops : state'[p] = "writing" => p = w
            BY <5>2 DEF OneAtATime, Pending
          <6> QED BY <5>2, <6>1 DEF Writer
        <5> QED BY <3>1, <5>3, <5>4 DEF AbstractRows
      <4> QED BY <4>1, <4>2
    <3> QED BY <3>2, <3>3, <3>4 DEF Map!Call
  <2>2. ASSUME NEW o \in Ops, Read(o) PROVE UNCHANGED <<AbstractRows, AbstractStatus>>
    <3>1. state[o] = "queued" /\ state' = [state EXCEPT ![o] = "ready"] /\ file' = file
      BY <2>2 DEF Read
    <3>2. state'[o] = "ready" BY <3>1 DEF TypeOK
    <3>3. file' # Torn BY <3>2 DEF OneAtATime
    <3>4. AbstractStatus' = AbstractStatus BY <3>1 DEF AbstractStatus, TypeOK
    <3> QED BY <3>1, <3>3, <3>4 DEF AbstractRows
  <2>3. ASSUME NEW o \in Ops, Open(o) PROVE Map!Apply(o) \/ Map!Refuse(o)
    <3>1. state[o] = "ready" /\ file # Torn /\ work[o] = Effect(o, file) /\ work' = work
      BY <2>3 DEF Open, OneAtATime
    <3>2. AbstractStatus[o] = "pending" BY <3>1, StatusOf
    <3>3. AbstractRows = file BY <3>1 DEF AbstractRows
    <3>4. CASE file' = Torn /\ state' = [state EXCEPT ![o] = "writing"]
      <4>1. AbstractStatus' = [AbstractStatus EXCEPT ![o] = "applied"]
        BY <3>4 DEF AbstractStatus, TypeOK
      <4>2. state'[o] = "writing" BY <3>4 DEF TypeOK
      <4>3. \A p \in Ops : state'[p] = "writing" => p = o
        BY <4>2 DEF OneAtATime, Pending
      <4>4. Writer' = o BY <4>2, <4>3 DEF Writer
      <4>5. AbstractRows' = Effect(o, file) BY <3>1, <3>4, <4>4 DEF AbstractRows
      <4>6. Effect(o, file) = Map!Effect(o, file)
        BY DEF Effect, Map!Effect, Empty, Map!Empty
      <4> QED BY <3>2, <3>3, <4>1, <4>5, <4>6 DEF Map!Apply
    <3>5. CASE file' = file /\ state' = [state EXCEPT ![o] = "failed"]
      <4>1. AbstractStatus' = [AbstractStatus EXCEPT ![o] = "failed"]
        BY <3>5 DEF AbstractStatus, TypeOK
      <4>2. AbstractRows' = AbstractRows BY <3>1, <3>5 DEF AbstractRows
      <4> QED BY <3>2, <4>1, <4>2 DEF Map!Refuse
    <3> QED BY <2>3, <3>4, <3>5 DEF Open
  <2>4. ASSUME NEW o \in Ops, Write(o) PROVE Map!Return(o)
    <3>1. state[o] = "writing" /\ state' = [state EXCEPT ![o] = "done"] /\ file' = work[o]
      BY <2>4 DEF Write
    <3>2. file = Torn BY <3>1 DEF OneAtATime
    <3>3. AbstractRows = work[o] BY <3>1, <3>2, WriterIs DEF AbstractRows
    <3>4. file' # Torn BY <3>1, KvFileAssumption DEF TypeOK, Rows
    <3>5. AbstractRows' = AbstractRows BY <3>1, <3>3, <3>4 DEF AbstractRows
    <3>6. AbstractStatus[o] = "applied" BY <3>1, StatusOf
    <3>7. AbstractStatus' = [AbstractStatus EXCEPT ![o] = "done"]
      BY <3>1 DEF AbstractStatus, TypeOK
    <3> QED BY <3>5, <3>6, <3>7 DEF Map!Return
  <2>5. CASE UNCHANGED vars
    BY <2>5 DEF vars, AbstractRows, AbstractStatus, Writer
  <2> QED BY <2>1, <2>2, <2>3, <2>4, <2>5, NoFaultNext DEF Map!Next
<1> QED BY <1>1, <1>2, TypeCorrect, OneAtATimeHolds, PTL DEF Spec, NothingLost, Map!Spec

(* A write leaves every row it does not touch as it read it, and a save     *)
(* puts its own value there.                                                *)
LEMMA EffectRows ==
    ASSUME NEW o \in Ops, NEW r \in Rows
    PROVE  /\ Op[o].kind = "set" => \A k \in Op[o].keys : Effect(o, r)[k] = Op[o].value
           /\ \A p \in Ops : ~Touches(o, p) => \A k \in Op[p].keys : Effect(o, r)[k] = r[k]
<1>0. /\ Op[o].keys \subseteq Keys /\ \A p \in Ops : Op[p].keys \subseteq Keys
      /\ Op[o].kind \in {"set", "delete", "clear"}
  BY KvFileAssumption
<1>1. CASE Op[o].kind = "set"
  BY <1>0, <1>1 DEF Effect, Touches, Rows
<1>2. CASE Op[o].kind = "delete"
  BY <1>0, <1>2 DEF Effect, Touches, Rows
<1>3. CASE Op[o].kind = "clear"
  BY <1>3 DEF Touches
<1>. QED
  BY <1>0, <1>1, <1>2, <1>3

(* SavedRowsThere is inductive as long as nothing has failed: the calls a   *)
(* saved row has to fear have not been made yet.                            *)
LEMMA KeptSoFarHolds == Spec => []KeptSoFar
<1>1. Init => KeptSoFar
  BY DEF Init, KeptSoFar, SavedRowsThere, Saved
<1>2. TypeOK /\ (faults = 0 => OneAtATime) /\ KeptSoFar /\ [Next]_vars => KeptSoFar'
  <2> SUFFICES ASSUME TypeOK, faults = 0 => OneAtATime, KeptSoFar, [Next]_vars, faults' = 0
               PROVE  SavedRowsThere'
    BY DEF KeptSoFar
  <2>0. OneAtATime /\ SavedRowsThere
    BY NoFaultNext DEF KeptSoFar
  <2>1. ASSUME NEW o \in Ops, Call(o) PROVE SavedRowsThere'
    <3>1. /\ state[o] = "new" /\ state' = [state EXCEPT ![o] = "queued"]
          /\ file' = file /\ work' = work
      BY <2>1 DEF Call
    <3>2. \A p \in Ops : Saved(p)' => Saved(p)
      BY <3>1 DEF Saved, TypeOK
    <3>3. \A p \in Ops : state'[p] = "writing" => state[p] = "writing"
      BY <3>1 DEF TypeOK
    <3>. QED
      BY <2>0, <3>1, <3>2, <3>3 DEF SavedRowsThere
  <2>2. ASSUME NEW o \in Ops, Read(o) PROVE SavedRowsThere'
    <3>1. /\ state[o] = "queued" /\ state' = [state EXCEPT ![o] = "ready"] /\ file' = file
          /\ \A p \in Ops : p # o => work'[p] = work[p]
      BY <2>2 DEF Read, TypeOK
    <3>2. \A p \in Ops : Saved(p)' => Saved(p)
      BY <3>1 DEF Saved, TypeOK
    <3>3. \A p \in Ops : state'[p] = "writing" => state[p] = "writing" /\ p # o
      BY <3>1 DEF TypeOK
    <3>. QED
      BY <2>0, <3>1, <3>2, <3>3 DEF SavedRowsThere
  <2>3. ASSUME NEW o \in Ops, Open(o) PROVE SavedRowsThere'
    <3>1. /\ state[o] = "ready" /\ file # Torn /\ file \in Rows
          /\ work[o] = Effect(o, file) /\ work' = work
      BY <2>0, <2>3 DEF Open, OneAtATime, TypeOK
    <3>2. \E s \in {"writing", "failed"} :
              /\ state' = [state EXCEPT ![o] = s]
              /\ file' = IF s = "writing" THEN Torn ELSE file
      BY <2>3 DEF Open
    <3>3. \A p \in Ops : Saved(p)' => Saved(p) /\ ~Touches(o, p)
      BY <3>1, <3>2 DEF Saved, TypeOK
    <3>4. \A p \in Ops : state'[p] = "writing" => p = o
      <4>1. \A p \in Ops : p # o => state[p] # "writing"
        BY <2>0, <3>1 DEF OneAtATime, Pending
      <4>. QED
        BY <3>2, <4>1 DEF TypeOK
    <3>5. \A p \in Ops : Saved(p) /\ ~Touches(o, p) =>
             \A k \in Op[p].keys : file[k] = Op[p].value /\ work[o][k] = Op[p].value
      BY <2>0, <3>1, EffectRows DEF SavedRowsThere
    <3>6. Op[o].kind = "set" => \A k \in Op[o].keys : work[o][k] = Op[o].value
      BY <3>1, EffectRows
    <3>7. file' # Torn => file' = file
      BY <3>2
    <3>. QED
      BY <3>1, <3>3, <3>4, <3>5, <3>6, <3>7 DEF SavedRowsThere
  <2>4. ASSUME NEW o \in Ops, Write(o) PROVE SavedRowsThere'
    <3>1. /\ state[o] = "writing" /\ state' = [state EXCEPT ![o] = "done"]
          /\ file' = work[o] /\ work' = work
      BY <2>4 DEF Write
    <3>2. \A p \in Ops : state'[p] # "writing"
      <4>1. \A p \in Ops : p # o => state[p] # "writing"
        BY <2>0, <3>1 DEF OneAtATime, Pending
      <4>. QED
        BY <3>1, <4>1 DEF TypeOK
    <3>3. \A p \in Ops : Saved(p)' => Saved(p) \/ (p = o /\ Op[o].kind = "set")
      BY <3>1 DEF Saved, TypeOK
    <3>4. \A p \in Ops : Saved(p)' => \A k \in Op[p].keys : work[o][k] = Op[p].value
      BY <2>0, <3>1, <3>3 DEF SavedRowsThere
    <3>. QED
      BY <3>1, <3>2, <3>4 DEF SavedRowsThere
  <2>5. CASE UNCHANGED vars
    BY <2>0, <2>5 DEF vars, SavedRowsThere, Saved
  <2>. QED
    BY <2>1, <2>2, <2>3, <2>4, <2>5, NoFaultNext
<1>. QED
  BY <1>1, <1>2, TypeCorrect, OneAtATimeHolds, PTL DEF Spec

(* A row that was saved and that no other call touches reads back as it was *)
(* saved, whatever else was written around it, until the first fault.       *)
THEOREM SavedRowsSafe == Spec => []SavedRowsStay
<1>1. TypeOK /\ (faults = 0 => OneAtATime) /\ KeptSoFar => SavedRowsStay
  <2> SUFFICES ASSUME OneAtATime, SavedRowsThere,
                      \A o \in Ops : state[o] # "writing",
                      NEW o \in Ops, Saved(o), NEW k \in Op[o].keys
               PROVE  Parse(file)[k] = Op[o].value
    BY DEF SavedRowsStay, SavedRowsSurvive, KeptSoFar
  <2>1. file # Torn
    BY DEF OneAtATime
  <2>. QED
    BY <2>1 DEF SavedRowsThere, Parse
<1>. QED
  BY <1>1, TypeCorrect, OneAtATimeHolds, KeptSoFarHolds, PTL

----------------------------------------------------------------------------
(* The findings history: the steps of the calls under way.                  *)
Busy(q) == q.contract \in Contracts /\ q.new \in Findings /\ q.new.seen = 1
StoreTypeInv ==
    /\ StoreTypeOK
    /\ \A r \in Recorders : rec[r].step # "idle" => Busy(rec[r])
    /\ \A p \in Pricers : pricer[p].contract # NoContract => pricer[p].row \in Findings

(* A row tells what really happened to its contract since it was kept.      *)
Covers(row, c) ==
    /\ everPassed[c] => row # NoRow /\ row.passed
    /\ sightings[c] <= IF row = NoRow THEN 0 ELSE row.seen

(* What a put has read still covers the row it is about to write over,      *)
(* unless a price look-up wrote there meanwhile or it found none in a file. *)
PutReady(q) ==
    q.step = "set" => /\ q.old # NoRow => q.old.seen <= puts[q.contract]
                      /\ q.contract \notin Forgotten /\ (onFile => q.old # NoRow)
                            => Covers(q.old, q.contract)

HistInv ==
    /\ overwritten \subseteq Kept
    /\ \A c \in Contracts : rows[c] # NoRow => rows[c].seen <= puts[c]
    /\ \A c \in Contracts \ Forgotten : Covers(rows[c], c)
    /\ \A r \in Recorders : PutReady(rec[r])
    /\ \A r, s \in Recorders : r # s /\ rec[r].step # "idle" => rec[r].contract # rec[s].contract
    /\ \A p \in Pricers : pricer[p].contract # NoContract => pricer[p].row.seen <= puts[pricer[p].contract]

(* The trims: whichever of the deletions decided on still happen, what they  *)
(* leave is within the cap, one row for every trim still to be decided on   *)
(* aside.                                                                   *)
Late == {"size", "readAll", "delete"}
Trimming == {r \in Recorders : rec[r].step \in Late}
Deleters == {r \in Recorders : rec[r].step = "delete"}
Gone(D) == UNION {rec[r].stale : r \in D}
Within(D) ==
    Cardinality(Kept \ Gone(D))
        <= MaxRecords + fails + Cardinality(overwritten \ Gone(D)) + Cardinality(Trimming \ D)
TrimInv ==
    /\ IsFiniteSet(Kept) /\ IsFiniteSet(Trimming)
    /\ \A D \in SUBSET Deleters : Within(D)

(* A merged finding is a finding, seen once more than the old one.          *)
LEMMA MergeType ==
    ASSUME NEW old \in Findings, NEW new \in Findings
    PROVE  /\ mergeFinding(old, new) \in Findings
           /\ mergeFinding(old, new).seen = old.seen + 1
           /\ mergeFinding(old, new).passed = (old.passed \/ new.passed)
<1>1. PICK passed \in BOOLEAN : passed = (old.passed \/ new.passed)
  BY DEF Findings
<1>2. PICK floor \in BOOLEAN : floor = (old.floor \/ new.floor)
  BY DEF Findings
<1>3. PICK minted \in {Unknown, 0, 1} : minted = IF new.minted = Unknown THEN old.minted ELSE new.minted
  BY DEF Findings
<1>4. mergeFinding(old, new) =
        [new EXCEPT !.first = old.first, !.seen = old.seen + 1, !.passed = passed,
                    !.minted = minted, !.floor = floor]
  BY <1>1, <1>2, <1>3 DEF mergeFinding
<1>5. old.first \in Nat /\ old.seen + 1 \in Nat
  BY DEF Findings
<1>6. PICK m : m = [new EXCEPT !.first = old.first, !.seen = old.seen + 1, !.passed = passed,
                    !.minted = minted, !.floor = floor]
  OBVIOUS
<1>7. m \in Findings /\ m.seen = old.seen + 1 /\ m.passed = passed
  BY <1>5, <1>6 DEF Findings
<1>. QED
  BY <1>1, <1>4, <1>6, <1>7

Recs == [step : RecSteps, contract : Contracts \cup {NoContract},
         new : Cells, old : Cells, stale : SUBSET Contracts]

(* A step that changes one recorder's locals, or none. *)
LEMMA RecTyped ==
    ASSUME StoreTypeInv, NEW r \in Recorders, NEW q \in Recs, rec' = [rec EXCEPT ![r] = q],
           q.step # "idle" => Busy(q)
    PROVE  rec' \in [Recorders -> Recs] /\ \A s \in Recorders : rec'[s].step # "idle" => Busy(rec'[s])
BY DEF StoreTypeInv, StoreTypeOK, Recs

(* A recorder that does nothing is typed. *)
LEMMA IdleTyped == IdleRec \in Recs /\ IdleRec.step = "idle"
BY DEF IdleRec, Recs, RecSteps, Cells

(* Removed rows leave nothing of another type behind. *)
LEMMA RemoveTyped ==
    ASSUME StoreTypeInv, NEW gone \in SUBSET Contracts, Remove(gone), UNCHANGED <<now, pricer, fails, puts, onFile>>,
           rec' \in [Recorders -> Recs], \A s \in Recorders : rec'[s].step # "idle" => Busy(rec'[s])
    PROVE  StoreTypeInv'
<1>1. /\ rows' \in [Contracts -> Cells] /\ sightings' \in [Contracts -> Nat]
      /\ overwritten' \subseteq Contracts /\ unread' \subseteq Contracts
  BY DEF StoreTypeInv, StoreTypeOK, Remove, Cells
<1>2. everPassed' \in [Contracts -> BOOLEAN]
  BY Zenon DEF StoreTypeInv, StoreTypeOK, Remove
<1>. QED
  BY <1>1, <1>2 DEF StoreTypeInv, StoreTypeOK, Recs, Busy

(* Every command on the history keeps the types. *)
LEMMA StoreTypeStep == StoreTypeInv /\ [StoreNext]_storeVars => StoreTypeInv'
<1> SUFFICES ASSUME StoreTypeInv, [StoreNext]_storeVars PROVE StoreTypeInv'
  OBVIOUS
<1>0. rec \in [Recorders -> Recs]
  BY DEF StoreTypeInv, StoreTypeOK, Recs
<1>1. ASSUME NEW r \in Recorders, NEW c \in Contracts, Start(r, c) PROVE StoreTypeInv'
  <2>1. PICK passed \in BOOLEAN, minted \in {Unknown, 0, 1} :
          rec' = [rec EXCEPT ![r] = [IdleRec EXCEPT !.step = "get", !.contract = c,
                !.new = [seen |-> 1, first |-> now, last |-> now, passed |-> passed,
                         minted |-> minted, floor |-> FALSE]]]
    BY <1>1 DEF Start
  <2>2. PICK new : new = [seen |-> 1, first |-> now, last |-> now, passed |-> passed,
                         minted |-> minted, floor |-> FALSE]
    OBVIOUS
  <2>3. new \in Findings /\ new.seen = 1
    BY <2>2 DEF Findings, StoreTypeInv, StoreTypeOK
  <2>4. PICK q : q = [IdleRec EXCEPT !.step = "get", !.contract = c, !.new = new]
    OBVIOUS
  <2>5. q \in Recs /\ Busy(q)
    BY <2>3, <2>4, IdleTyped DEF Recs, RecSteps, Cells, Busy
  <2>6. rec' = [rec EXCEPT ![r] = q]
    BY <2>1, <2>2, <2>4
  <2>7. rec' \in [Recorders -> Recs] /\ \A s \in Recorders : rec'[s].step # "idle" => Busy(rec'[s])
    BY <2>5, <2>6, RecTyped
  <2>8. now' = now + 1 /\ UNCHANGED <<rows, pricer, fails, sightings, everPassed, puts, overwritten, unread, onFile>>
    BY <1>1 DEF Start
  <2>. QED
    BY <2>7, <2>8 DEF StoreTypeInv, StoreTypeOK, Recs, Busy
<1>2. ASSUME NEW r \in Recorders, Get(r) \/ Size(r) \/ ReadAll(r) \/ Fail(r) PROVE StoreTypeInv'
  <2>0. rec[r].step # "idle" => \A old \in Reads(rows[rec[r].contract]) : old \in Cells
    BY DEF Reads, Cells, StoreTypeInv, StoreTypeOK, Busy
  <2>1. PICK q : /\ rec' = [rec EXCEPT ![r] = q]
                 /\ \/ q = IdleRec
                    \/ /\ rec[r].step # "idle"
                       /\ \E old \in Cells : q = [rec[r] EXCEPT !.step = "set", !.old = old]
                    \/ rec[r].step # "idle" /\ q = [rec[r] EXCEPT !.step = "readAll"]
                    \/ /\ rec[r].step # "idle"
                       /\ \E stale \in SUBSET Contracts : q = [rec[r] EXCEPT !.step = "delete", !.stale = stale]
    BY <1>2, <2>0 DEF Get, Size, ReadAll, Fail, FindsNothing
  <2>2. rec[r].step # "idle" => rec[r] \in Recs /\ Busy(rec[r])
    BY <1>0 DEF StoreTypeInv, StoreTypeOK, Busy
  <2>3. q \in Recs /\ (q.step # "idle" => Busy(q))
    BY <2>1, <2>2, IdleTyped DEF Recs, RecSteps, Busy
  <2>4. rec' \in [Recorders -> Recs] /\ \A s \in Recorders : rec'[s].step # "idle" => Busy(rec'[s])
    BY <2>1, <2>3, RecTyped
  <2>5. /\ UNCHANGED <<now, rows, pricer, sightings, everPassed, puts, overwritten, unread, onFile>>
        /\ fails' = fails \/ fails' = fails + 1
    BY <1>2 DEF Get, Size, ReadAll, Fail, FindsNothing
  <2>. QED
    BY <2>4, <2>5 DEF StoreTypeInv, StoreTypeOK, Recs, Busy
<1>3. ASSUME NEW r \in Recorders, Put(r) PROVE StoreTypeInv'
  <2>1. PICK c, new, old, q : /\ c = rec[r].contract /\ new = rec[r].new /\ old = rec[r].old
                              /\ q = [rec[r] EXCEPT !.step = "size"]
    OBVIOUS
  <2>2. c \in Contracts /\ new \in Findings /\ old \in Cells /\ q \in Recs /\ Busy(q)
    BY <1>0, <1>3, <2>1 DEF Put, StoreTypeInv, Busy, Recs, RecSteps
  <2>3. PICK row : row = IF old = NoRow THEN new ELSE mergeFinding(old, new)
    OBVIOUS
  <2>4. row \in Cells
    BY <2>2, <2>3, MergeType DEF Cells
  <2>5. /\ rows' = [rows EXCEPT ![c] = row] /\ rec' = [rec EXCEPT ![r] = q]
        /\ sightings' = [sightings EXCEPT ![c] = @ + 1] /\ puts' = [puts EXCEPT ![c] = @ + 1]
        /\ UNCHANGED <<now, pricer, fails, overwritten, onFile>>
        /\ unread' \subseteq unread \cup {c}
    BY <1>3, <2>1, <2>3 DEF Put
  <2>6. everPassed' \in [Contracts -> BOOLEAN]
    <3>1. PICK b \in BOOLEAN : everPassed' = [everPassed EXCEPT ![c] = b]
      <4>1. (everPassed[c] \/ new.passed) \in BOOLEAN
        OBVIOUS
      <4>. QED
        BY <1>3, <2>1, <4>1 DEF Put
    <3>. QED
      BY <3>1 DEF StoreTypeInv, StoreTypeOK
  <2>7. rec' \in [Recorders -> Recs] /\ \A s \in Recorders : rec'[s].step # "idle" => Busy(rec'[s])
    BY <2>2, <2>5, RecTyped
  <2>8. rows' \in [Contracts -> Cells]
    BY <2>4, <2>5 DEF StoreTypeInv, StoreTypeOK
  <2>9. sightings' \in [Contracts -> Nat] /\ puts' \in [Contracts -> Nat]
    <3>1. sightings \in [Contracts -> Nat] /\ puts \in [Contracts -> Nat]
      BY DEF StoreTypeInv, StoreTypeOK
    <3>. QED
      BY <2>2, <2>5, <3>1
  <2>. QED
    BY <2>5, <2>6, <2>7, <2>8, <2>9 DEF StoreTypeInv, StoreTypeOK, Recs, Busy
<1>4. ASSUME NEW r \in Recorders, Delete(r) PROVE StoreTypeInv'
  <2>1. rec' = [rec EXCEPT ![r] = IdleRec] /\ rec[r].stale \in SUBSET Contracts
    BY <1>0, <1>4 DEF Delete, Recs
  <2>2. rec' \in [Recorders -> Recs] /\ \A s \in Recorders : rec'[s].step # "idle" => Busy(rec'[s])
    BY <2>1, IdleTyped, RecTyped
  <2>. QED
    BY <1>4, <2>1, <2>2, RemoveTyped DEF Delete
<1>5. CASE Clear \/ Lose
  BY <1>0, <1>5, RemoveTyped DEF Clear, Lose, StoreTypeInv, Busy
<1>6. ASSUME NEW p \in Pricers, NEW c \in Contracts, List(p, c) PROVE StoreTypeInv'
  <2>1. rows[c] \in Findings /\ pricer' = [pricer EXCEPT ![p] = [contract |-> c, row |-> rows[c]]]
    BY <1>6 DEF List, Kept, StoreTypeInv, StoreTypeOK, Cells
  <2>2. UNCHANGED <<now, rows, rec, fails, sightings, everPassed, puts, overwritten, unread, onFile>>
    BY <1>6 DEF List
  <2>. QED
    BY <2>1, <2>2 DEF StoreTypeInv, StoreTypeOK, Cells, Busy
<1>7. ASSUME NEW p \in Pricers, Update(p) PROVE StoreTypeInv'
  <2>1. PICK c, row : c = pricer[p].contract /\ row = [pricer[p].row EXCEPT !.floor = TRUE]
    OBVIOUS
  <2>2. c \in Contracts /\ row \in Cells
    BY <1>7, <2>1 DEF Update, StoreTypeInv, StoreTypeOK, Cells, Findings
  <2>3. /\ rows' = rows \/ rows' = [rows EXCEPT ![c] = row]
        /\ overwritten' \subseteq overwritten \cup {c}
        /\ pricer' = [pricer EXCEPT ![p] = IdlePricer]
        /\ UNCHANGED <<now, rec, fails, sightings, everPassed, puts, unread, onFile>>
    BY <1>7, <2>1 DEF Update
  <2>4. IdlePricer \in [contract : Contracts \cup {NoContract}, row : Cells] /\ IdlePricer.contract = NoContract
    BY DEF IdlePricer, Cells
  <2>. QED
    BY <2>2, <2>3, <2>4 DEF StoreTypeInv, StoreTypeOK, Busy
<1>8. CASE UNCHANGED storeVars
  BY <1>8 DEF storeVars, StoreTypeInv, StoreTypeOK, Busy
<1>. QED
  BY <1>1, <1>2, <1>3, <1>4, <1>5, <1>6, <1>7, <1>8 DEF StoreNext, Recorder

(* They hold of every behaviour. *)
LEMMA StoreTypeHolds == StoreSpec => []StoreTypeInv
<1>1. StoreInit => StoreTypeInv
  BY IdleTyped DEF StoreInit, StoreTypeInv, StoreTypeOK, Recs, Cells, IdlePricer
<1>. QED
  BY <1>1, StoreTypeStep, PTL DEF StoreSpec

----------------------------------------------------------------------------
(* What a row tells of its contract.  Steps that only move a call along.    *)
LEMMA MovesKeepHist ==
    ASSUME StoreTypeInv, HistInv, NEW r \in Recorders, NEW q, rec' = [rec EXCEPT ![r] = q],
           UNCHANGED <<rows, pricer, sightings, everPassed, puts, overwritten, unread, onFile>>, PutReady(q),
           q.step = "idle" => q.contract = NoContract,
           q.step # "idle" => \/ rec[r].step # "idle" /\ q.contract = rec[r].contract
                              \/ \A s \in Recorders : rec[s].contract # q.contract
    PROVE  HistInv'
<1>1. rec'[r] = q /\ \A s \in Recorders \ {r} : rec'[s] = rec[s]
  BY DEF StoreTypeInv, StoreTypeOK
<1>2. \A x : PutReady(x) => PutReady(x)'
  BY DEF PutReady, Covers, Forgotten
<1>3. \A s \in Recorders : PutReady(rec[s])'
  BY <1>1, <1>2 DEF HistInv
<1>4. \A s, t \in Recorders : s # t /\ rec'[s].step # "idle" => rec'[s].contract # rec'[t].contract
  <2>1. \A s \in Recorders : rec[s].step # "idle" => rec[s].contract # NoContract
    BY FindingStoreAssumption DEF StoreTypeInv, Busy
  <2>. QED
    BY <1>1, <2>1 DEF HistInv
<1>5. \A c, x : Covers(x, c) => Covers(x, c)'
  BY DEF Covers
<1>. QED
  BY <1>3, <1>4, <1>5 DEF HistInv, Kept, Forgotten

(* A put writes what it read, merged with the new finding. *)
LEMMA PutKeepsHist ==
    ASSUME StoreTypeInv, HistInv, NEW r \in Recorders, Put(r)
    PROVE  HistInv'
<1>1. PICK c, new, old : c = rec[r].contract /\ new = rec[r].new /\ old = rec[r].old
  OBVIOUS
<1>2. c \in Contracts /\ new \in Findings /\ new.seen = 1 /\ old \in Cells /\ rec[r].step = "set"
  BY <1>1 DEF Put, StoreTypeInv, StoreTypeOK, Busy
<1>3. PICK row : row = IF old = NoRow THEN new ELSE mergeFinding(old, new)
  OBVIOUS
<1>4. /\ row \in Findings /\ row # NoRow
      /\ row.seen = 1 + IF old = NoRow THEN 0 ELSE old.seen
      /\ new.passed \/ (old # NoRow /\ old.passed) => row.passed
  <2>1. CASE old = NoRow
    BY <1>2, <1>3, <2>1, FindingStoreAssumption
  <2>2. CASE old # NoRow
    <3>1. old \in Findings
      BY <1>2, <2>2 DEF Cells
    <3>2. row \in Findings /\ row.seen = old.seen + 1 /\ row.passed = (old.passed \/ new.passed)
      BY <1>2, <1>3, <2>2, <3>1, MergeType
    <3>3. old.seen \in Nat
      BY <3>1 DEF Findings
    <3>4. row.seen = 1 + IF old = NoRow THEN 0 ELSE old.seen
      BY <2>2, <3>2, <3>3
    <3>5. new.passed \/ (old # NoRow /\ old.passed) => row.passed
      BY <3>2, Zenon
    <3>. QED
      BY <3>2, <3>4, <3>5, FindingStoreAssumption
  <2>. QED
    BY <2>1, <2>2
<1>5. /\ rows' = [rows EXCEPT ![c] = row]
      /\ sightings' = [sightings EXCEPT ![c] = @ + 1] /\ puts' = [puts EXCEPT ![c] = @ + 1]
      /\ everPassed' = [everPassed EXCEPT ![c] = @ \/ new.passed]
      /\ rec' = [rec EXCEPT ![r] = [@ EXCEPT !.step = "size"]]
      /\ UNCHANGED <<pricer, overwritten, onFile>>
      /\ unread' = IF old = NoRow /\ rows[c] # NoRow THEN unread \cup {c} ELSE unread
  BY <1>1, <1>3 DEF Put
<1>6. /\ rows'[c] = row /\ sightings'[c] = sightings[c] + 1 /\ puts'[c] = puts[c] + 1
      /\ everPassed'[c] = (everPassed[c] \/ new.passed)
      /\ sightings[c] \in Nat /\ puts[c] \in Nat
      /\ \A d \in Contracts \ {c} : /\ rows'[d] = rows[d] /\ sightings'[d] = sightings[d]
                                    /\ puts'[d] = puts[d] /\ everPassed'[d] = everPassed[d]
  BY <1>2, <1>5 DEF StoreTypeInv, StoreTypeOK
<1>7. overwritten' \subseteq Kept'
  BY <1>4, <1>5, <1>6 DEF HistInv, Kept
<1>8. \A d \in Contracts : rows'[d] # NoRow => rows'[d].seen <= puts'[d]
  <2>1. row.seen <= puts[c] + 1
    <3>1. old # NoRow => old.seen <= puts[c] /\ old.seen \in Nat
      BY <1>1, <1>2 DEF HistInv, PutReady, Cells, Findings
    <3>. QED
      BY <1>4, <1>6, <3>1
  <2>. QED
    BY <1>6, <2>1 DEF HistInv
<1>f. Forgotten \subseteq Forgotten'
  BY <1>5 DEF Forgotten
<1>9. \A d \in Contracts \ Forgotten' : Covers(rows[d], d)'
  <2>1. ASSUME c \notin Forgotten' PROVE Covers(row, c)'
    <3>1. Covers(old, c)
      <4>1. c \notin Forgotten
        BY <1>f, <2>1
      <4>2. CASE onFile /\ old = NoRow
        <5>1. rows[c] = NoRow
          BY <1>5, <2>1, <4>2 DEF Forgotten
        <5>2. Covers(rows[c], c)
          BY <1>2, <4>1 DEF HistInv
        <5>. QED
          BY <4>2, <5>1, <5>2
      <4>3. CASE ~(onFile /\ old = NoRow)
        BY <1>1, <1>2, <4>1, <4>3 DEF HistInv, PutReady
      <4>. QED
        BY <4>2, <4>3
    <3>2. old # NoRow => old.seen \in Nat
      BY <1>2 DEF Cells, Findings
    <3>3. everPassed'[c] => row.passed
      BY <1>4, <1>6, <3>1 DEF Covers
    <3>4. sightings'[c] <= row.seen
      BY <1>4, <1>6, <3>1, <3>2 DEF Covers
    <3>. QED
      BY <1>4, <3>3, <3>4 DEF Covers
  <2>2. ASSUME NEW d \in Contracts \ Forgotten', d # c PROVE Covers(rows[d], d)'
    <3>1. d \notin Forgotten
      BY <1>f
    <3>. QED
      BY <1>6, <2>2, <3>1 DEF HistInv, Covers
  <2>3. Covers(rows[c], c)' <=> Covers(row, c)'
    BY <1>6 DEF Covers
  <2>. QED
    BY <1>5, <2>1, <2>2, <2>3
<1>10. \A s \in Recorders : PutReady(rec[s])'
  <2>1. rec'[r].step = "size" /\ \A s \in Recorders \ {r} : rec'[s] = rec[s]
    BY <1>5 DEF StoreTypeInv, StoreTypeOK
  <2>2. ASSUME NEW s \in Recorders \ {r}, NEW x, x = rec[s] PROVE PutReady(x)'
    <3>1. CASE x.step = "set"
      <4>1. PICK d \in Contracts : d = x.contract
        BY <2>2, <3>1 DEF StoreTypeInv, Busy
      <4>2. d # c
        BY <1>1, <1>2, <2>2, <4>1 DEF HistInv
      <4>3. PutReady(x)
        BY <2>2 DEF HistInv
      <4>4. Covers(x.old, d) => Covers(x.old, d)'
        BY <1>6, <4>2 DEF Covers
      <4>. QED
        BY <1>5, <1>6, <1>f, <4>1, <4>2, <4>3, <4>4 DEF PutReady
    <3>2. CASE x.step # "set"
      BY <3>2 DEF PutReady
    <3>. QED
      BY <3>1, <3>2
  <2>. QED
    BY <2>1, <2>2 DEF PutReady
<1>11. \A s, t \in Recorders : s # t /\ rec'[s].step # "idle" => rec'[s].contract # rec'[t].contract
  <2>1. rec'[r].contract = rec[r].contract /\ \A s \in Recorders \ {r} : rec'[s] = rec[s]
    BY <1>5 DEF StoreTypeInv, StoreTypeOK
  <2>. QED
    BY <1>2, <2>1 DEF HistInv
<1>12. \A p \in Pricers : pricer'[p].contract # NoContract => pricer'[p].row.seen <= puts'[pricer'[p].contract]
  <2> SUFFICES ASSUME NEW p \in Pricers, pricer[p].contract # NoContract
               PROVE  pricer[p].row.seen <= puts'[pricer[p].contract]
    BY <1>5
  <2>1. /\ pricer[p].row.seen \in Nat /\ pricer[p].contract \in Contracts
        /\ pricer[p].row.seen <= puts[pricer[p].contract]
    BY DEF StoreTypeInv, StoreTypeOK, Findings, HistInv
  <2>. QED
    BY <1>6, <2>1
<1>. QED
  BY <1>7, <1>8, <1>9, <1>10, <1>11, <1>12 DEF HistInv

(* Removed rows take what happened to them along. *)
LEMMA RemoveKeepsHist ==
    ASSUME StoreTypeInv, HistInv, NEW gone, Remove(gone), UNCHANGED <<pricer, puts, onFile>>,
           \A s \in Recorders : rec'[s] = rec[s] \/ rec'[s] = IdleRec
    PROVE  HistInv'
<1>1. \A c \in Contracts : /\ rows'[c] = IF c \in gone THEN NoRow ELSE rows[c]
                           /\ sightings'[c] = IF c \in gone THEN 0 ELSE sightings[c]
                           /\ everPassed'[c] = (c \notin gone /\ everPassed[c])
  BY DEF Remove
<1>2. overwritten' = overwritten \ gone /\ puts' = puts
  BY DEF Remove
<1>f. Forgotten' = Forgotten \ gone /\ onFile' = onFile
  BY DEF Remove, Forgotten
<1>3. ASSUME NEW c \in Contracts, NEW x \in Cells, c \in gone \/ Covers(x, c)
      PROVE  Covers(x, c)'
  <2>1. x # NoRow => x.seen \in Nat
    BY DEF Cells, Findings
  <2>2. CASE c \in gone
    <3>1. ~everPassed'[c]
      BY <1>1, <2>2, Zenon
    <3>2. sightings'[c] = 0
      BY <1>1, <2>2
    <3>. QED
      BY <2>1, <3>1, <3>2 DEF Covers
  <2>3. CASE c \notin gone
    BY <1>1, <1>3, <2>3 DEF Covers
  <2>. QED
    BY <2>2, <2>3
<1>4. \A c \in Contracts \ Forgotten' : Covers(rows[c], c)'
  <2> SUFFICES ASSUME NEW c \in Contracts, c \notin Forgotten'
               PROVE  Covers(rows[c], c)'
    OBVIOUS
  <2>1. PICK x : x = rows'[c]
    OBVIOUS
  <2>2. x \in Cells /\ (c \notin gone => x = rows[c])
    BY <1>1, <2>1 DEF StoreTypeInv, StoreTypeOK, Cells
  <2>3. c \in gone \/ Covers(x, c)
    BY <1>f, <2>2 DEF HistInv
  <2>4. Covers(x, c)'
    BY <1>3, <2>2, <2>3
  <2>. QED
    BY <2>1, <2>4 DEF Covers
<1>5. ASSUME NEW s \in Recorders
      PROVE  PutReady(rec[s])'
  <2>1. PICK x : x = rec'[s]
    OBVIOUS
  <2>2. ASSUME x.step = "set", x.contract \notin Forgotten', onFile => x.old # NoRow
        PROVE  Covers(x.old, x.contract)'
    <3>1. x = rec[s]
      BY <2>1, <2>2 DEF IdleRec
    <3>2. x.contract \in Contracts /\ x.old \in Cells
      BY <2>2, <3>1 DEF StoreTypeInv, StoreTypeOK, Busy
    <3>3. x.contract \in gone \/ Covers(x.old, x.contract)
      BY <1>f, <2>2, <3>1 DEF HistInv, PutReady
    <3>. QED
      BY <1>3, <3>2, <3>3
  <2>3. x.step = "set" /\ x.old # NoRow => x.old.seen <= puts'[x.contract]
    BY <1>2, <2>1 DEF HistInv, PutReady, IdleRec
  <2>4. PutReady(x)'
    BY <1>f, <2>2, <2>3 DEF PutReady
  <2>. QED
    BY <2>1, <2>4 DEF PutReady, Covers
<1>6. \A s, t \in Recorders : s # t /\ rec'[s].step # "idle" => rec'[s].contract # rec'[t].contract
  <2>1. \A s \in Recorders : rec[s].step # "idle" => rec[s].contract # NoContract
    BY FindingStoreAssumption DEF StoreTypeInv, Busy
  <2>. QED
    BY <2>1 DEF HistInv, IdleRec
<1>7. overwritten' \subseteq Kept'
  BY <1>1, <1>2 DEF HistInv, Kept, StoreTypeInv, StoreTypeOK
<1>8. \A c \in Contracts : rows'[c] # NoRow => rows'[c].seen <= puts'[c]
  BY <1>1, <1>2 DEF HistInv
<1>. QED
  BY <1>4, <1>5, <1>6, <1>7, <1>8 DEF HistInv

(* A look-up writes back what it listed; a newer row it writes over counts  *)
(* as overwritten.                                                          *)
LEMMA UpdateKeepsHist ==
    ASSUME StoreTypeInv, HistInv, NEW p \in Pricers, Update(p)
    PROVE  HistInv'
<1>1. PICK c, old, row : c = pricer[p].contract /\ old = pricer[p].row /\ row = [old EXCEPT !.floor = TRUE]
  OBVIOUS
<1>2. c \in Contracts /\ old \in Findings /\ old.seen <= puts[c]
  BY <1>1 DEF Update, StoreTypeInv, StoreTypeOK, HistInv
<1>3. row \in Findings /\ row # NoRow /\ row.seen = old.seen /\ row.passed = old.passed
  BY <1>1, <1>2, FindingStoreAssumption DEF Findings
<1>4. /\ \/ /\ rows' = [rows EXCEPT ![c] = row]
            /\ overwritten' = IF rows[c] = old THEN overwritten ELSE overwritten \cup {c}
         \/ rows' = rows /\ overwritten' = overwritten
      /\ pricer' = [pricer EXCEPT ![p] = IdlePricer]
      /\ UNCHANGED <<rec, sightings, everPassed, puts, unread, onFile>>
  BY <1>1 DEF Update
<1>5. \A x, d : Covers(x, d) => Covers(x, d)'
  BY <1>4 DEF Covers
<1>6. overwritten \subseteq overwritten' /\ Forgotten \subseteq Forgotten'
  BY <1>4 DEF Forgotten
<1>7. \A s \in Recorders : PutReady(rec[s])'
  <2>1. \A x : PutReady(x) => PutReady(x)'
    BY <1>4, <1>5, <1>6 DEF PutReady
  <2>. QED
    BY <1>4, <2>1 DEF HistInv
<1>8. \A q \in Pricers : pricer'[q].contract # NoContract => pricer'[q].row.seen <= puts'[pricer'[q].contract]
  BY <1>4 DEF HistInv, IdlePricer, StoreTypeInv, StoreTypeOK
<1>9. \A d \in Contracts :
         rows'[d] = rows[d] \/ (d = c /\ rows'[d] = row /\ (c \in overwritten' \/ rows[c] = old))
  BY <1>2, <1>4 DEF StoreTypeInv, StoreTypeOK
<1>10. overwritten' \subseteq Kept'
  <2>1. c \in overwritten' => c \in overwritten \/ rows'[c] = row
    BY <1>2, <1>4 DEF StoreTypeInv, StoreTypeOK
  <2>2. overwritten' \subseteq overwritten \cup {c}
    BY <1>4
  <2>. QED
    BY <1>2, <1>3, <1>9, <2>1, <2>2 DEF HistInv, Kept
<1>11. \A d \in Contracts : rows'[d] # NoRow => rows'[d].seen <= puts'[d]
  BY <1>2, <1>3, <1>4, <1>9 DEF HistInv
<1>12. \A d \in Contracts \ Forgotten' : Covers(rows[d], d)'
  <2> SUFFICES ASSUME NEW d \in Contracts, d \notin Forgotten'
               PROVE  Covers(rows[d], d)'
    OBVIOUS
  <2>1. Covers(rows[d], d)
    BY <1>6 DEF HistInv
  <2>2. CASE rows'[d] = rows[d]
    BY <1>4, <2>1, <2>2 DEF Covers
  <2>3. CASE d = c /\ rows'[d] = row /\ rows[c] = old
    <3>1. Covers(old, c)
      BY <2>1, <2>3
    <3>2. old # NoRow
      BY <1>2, FindingStoreAssumption
    <3>3. everPassed[c] => row.passed
      BY <1>3, <3>1 DEF Covers
    <3>4. sightings[c] <= row.seen
      BY <1>3, <3>1, <3>2 DEF Covers
    <3>. QED
      BY <1>3, <1>4, <2>3, <3>3, <3>4 DEF Covers
  <2>4. d \notin overwritten'
    BY DEF Forgotten
  <2>. QED
    BY <1>9, <2>2, <2>3, <2>4
<1>. QED
  BY <1>4, <1>7, <1>8, <1>10, <1>11, <1>12 DEF HistInv

(* Every command on the history keeps what rows remember. *)
LEMMA HistStep == StoreTypeInv /\ HistInv /\ [StoreNext]_storeVars => HistInv'
<1> SUFFICES ASSUME StoreTypeInv, HistInv, [StoreNext]_storeVars PROVE HistInv'
  OBVIOUS
<1>1. ASSUME NEW r \in Recorders, NEW c \in Contracts, Start(r, c) PROVE HistInv'
  <2>1. PICK new : rec' = [rec EXCEPT ![r] = [IdleRec EXCEPT !.step = "get", !.contract = c, !.new = new]]
    BY <1>1 DEF Start
  <2>2. PICK q : q = [IdleRec EXCEPT !.step = "get", !.contract = c, !.new = new]
    OBVIOUS
  <2>3. q.step = "get" /\ q.contract = c
    BY <2>2 DEF IdleRec
  <2>4. \A s \in Recorders : rec[s].contract # c
    BY <1>1 DEF Start
  <2>5. UNCHANGED <<rows, pricer, sightings, everPassed, puts, overwritten, unread, onFile>>
    BY <1>1 DEF Start
  <2>. QED
    BY <2>1, <2>2, <2>3, <2>4, <2>5, MovesKeepHist DEF PutReady
<1>2. ASSUME NEW r \in Recorders, Get(r) PROVE HistInv'
  <2>0. PICK old \in Reads(rows[rec[r].contract]) :
           rec' = [rec EXCEPT ![r] = [@ EXCEPT !.step = "set", !.old = old]]
    BY <1>2 DEF Get
  <2>1. PICK q : q = [rec[r] EXCEPT !.step = "set", !.old = old]
    OBVIOUS
  <2>2. rec[r].step # "idle" /\ rec[r].contract \in Contracts
    BY <1>2 DEF Get, StoreTypeInv, Busy
  <2>3. q.step = "set" /\ q.contract = rec[r].contract /\ q.old = old
    BY <2>1 DEF StoreTypeInv, StoreTypeOK
  <2>4. PutReady(q)
    <3>1. old = rows[rec[r].contract] \/ (onFile /\ old = NoRow)
      BY DEF Reads
    <3>. QED
      BY <2>2, <2>3, <3>1 DEF HistInv, PutReady
  <2>5. rec' = [rec EXCEPT ![r] = q] /\ UNCHANGED <<rows, pricer, sightings, everPassed, puts, overwritten, unread, onFile>>
    BY <1>2, <2>0, <2>1 DEF Get
  <2>. QED
    BY <2>2, <2>3, <2>4, <2>5, MovesKeepHist
<1>3. ASSUME NEW r \in Recorders, Size(r) \/ ReadAll(r) \/ Fail(r) PROVE HistInv'
  <2>1. PICK q : /\ rec' = [rec EXCEPT ![r] = q] /\ rec[r].step # "idle"
                 /\ \/ q = IdleRec
                    \/ q = [rec[r] EXCEPT !.step = "readAll"]
                    \/ \E stale : q = [rec[r] EXCEPT !.step = "delete", !.stale = stale]
    BY <1>3 DEF Size, ReadAll, Fail, FindsNothing
  <2>2. q.step \in {"idle", "readAll", "delete"} /\ (q.step = "idle" => q.contract = NoContract)
        /\ (q.step # "idle" => q.contract = rec[r].contract)
    <3>1. rec[r] \in Recs
      BY DEF StoreTypeInv, StoreTypeOK, Recs
    <3>2. CASE q = IdleRec
      BY <3>2 DEF IdleRec
    <3>3. CASE q = [rec[r] EXCEPT !.step = "readAll"]
      BY <3>1, <3>3 DEF Recs
    <3>4. ASSUME NEW stale, q = [rec[r] EXCEPT !.step = "delete", !.stale = stale]
          PROVE  q.step = "delete" /\ q.contract = rec[r].contract
      BY <3>1, <3>4 DEF Recs
    <3>. QED
      BY <2>1, <3>2, <3>3, <3>4
  <2>3. UNCHANGED <<rows, pricer, sightings, everPassed, puts, overwritten, unread, onFile>>
    BY <1>3 DEF Size, ReadAll, Fail, FindsNothing
  <2>. QED
    BY <2>1, <2>2, <2>3, MovesKeepHist DEF PutReady
<1>4. ASSUME NEW r \in Recorders, Put(r) PROVE HistInv'
  BY <1>4, PutKeepsHist
<1>5. ASSUME NEW r \in Recorders, Delete(r) PROVE HistInv'
  <2>1. \A s \in Recorders : rec'[s] = rec[s] \/ rec'[s] = IdleRec
    BY <1>5 DEF Delete, StoreTypeInv, StoreTypeOK
  <2>. QED
    BY <1>5, <2>1, RemoveKeepsHist DEF Delete
<1>6. CASE Clear \/ Lose
  BY <1>6, RemoveKeepsHist DEF Clear, Lose
<1>7. ASSUME NEW p \in Pricers, NEW c \in Contracts, List(p, c) PROVE HistInv'
  <2>1. /\ pricer' = [pricer EXCEPT ![p] = [contract |-> c, row |-> rows[c]]] /\ rows[c] # NoRow
        /\ UNCHANGED <<rows, rec, sightings, everPassed, puts, overwritten, unread, onFile>>
    BY <1>7 DEF List, Kept
  <2>2. (\A x, d : Covers(x, d) => Covers(x, d)') /\ Forgotten' = Forgotten
    BY <2>1 DEF Covers, Forgotten
  <2>3. \A x : PutReady(x) => PutReady(x)'
    BY <2>1, <2>2 DEF PutReady
  <2>4. \A q \in Pricers : pricer'[q].contract # NoContract => pricer'[q].row.seen <= puts'[pricer'[q].contract]
    BY <2>1 DEF HistInv, StoreTypeInv, StoreTypeOK
  <2>. QED
    BY <2>1, <2>2, <2>3, <2>4 DEF HistInv, Kept
<1>8. ASSUME NEW p \in Pricers, Update(p) PROVE HistInv'
  BY <1>8, UpdateKeepsHist
<1>9. CASE UNCHANGED storeVars
  BY <1>9 DEF storeVars, HistInv, Kept, PutReady, Covers, Forgotten
<1>. QED
  BY <1>1, <1>2, <1>3, <1>4, <1>5, <1>6, <1>7, <1>8, <1>9 DEF StoreNext, Recorder

(* It holds of every behaviour. *)
LEMMA HistInvHolds == StoreSpec => []HistInv
<1>1. StoreInit => HistInv
  BY DEF StoreInit, HistInv, Kept, PutReady, Covers, IdleRec, IdlePricer
<1>. QED
  BY <1>1, HistStep, StoreTypeHolds, PTL DEF StoreSpec

(* However puts, trims, clears, failures and price look-ups interleave, no   *)
(* row counts more rounds than recorded it, and a pass or a sighting is     *)
(* forgotten (findings.ts: mergeFinding, "Never lose the fact that it was   *)
(* ... once passed") only when a look-up wrote a row back over a newer one, *)
(* or when a put on the file driver found no row where there was one.       *)
THEOREM HistorySafe == StoreSpec => []HistoryKept
<1>1. StoreTypeInv /\ HistInv => HistoryKept
  <2> SUFFICES ASSUME StoreTypeInv, HistInv, NEW c \in Kept
               PROVE  /\ rows[c].seen <= puts[c]
                      /\ c \notin Forgotten =>
                            (everPassed[c] => rows[c].passed) /\ rows[c].seen >= sightings[c]
    BY DEF HistoryKept
  <2>1. c \in Contracts /\ rows[c] # NoRow
    BY DEF Kept
  <2>2. rows[c].seen \in Nat /\ sightings[c] \in Nat
    BY <2>1 DEF StoreTypeInv, StoreTypeOK, Cells, Findings
  <2>. QED
    BY <2>1, <2>2 DEF HistInv, Covers
<1>. QED
  BY <1>1, HistInvHolds, StoreTypeHolds, PTL

----------------------------------------------------------------------------
(* The cap.  A part of a finite set is finite and no larger, and one that    *)
(* has at most one more element is at most one larger.                      *)
LEMMA PartSize ==
    ASSUME NEW S, NEW T, IsFiniteSet(S), T \subseteq S
    PROVE  /\ IsFiniteSet(T) /\ Cardinality(T) \in Nat /\ Cardinality(S) \in Nat
           /\ Cardinality(T) <= Cardinality(S)
<1>1. IsFiniteSet(T) /\ Cardinality(T) <= Cardinality(S)
  BY FS_Subset
<1>. QED
  BY <1>1, FS_CardinalityType

(* One element more is at most one more to count. *)
LEMMA OneMore ==
    ASSUME NEW S, NEW T, NEW x, IsFiniteSet(S), T \subseteq S \cup {x}
    PROVE  /\ IsFiniteSet(T) /\ Cardinality(T) \in Nat /\ Cardinality(S) \in Nat
           /\ Cardinality(T) <= Cardinality(S) + 1
<1>1. IsFiniteSet(S \cup {x}) /\ Cardinality(S \cup {x}) <= Cardinality(S) + 1 /\ Cardinality(S) \in Nat
  BY FS_AddElement, FS_CardinalityType
<1>2. IsFiniteSet(T) /\ Cardinality(T) \in Nat /\ Cardinality(S \cup {x}) \in Nat
      /\ Cardinality(T) <= Cardinality(S \cup {x})
  BY <1>1, PartSize
<1>. QED
  BY <1>1, <1>2

(* One new element is exactly one more to count. *)
LEMMA Joined ==
    ASSUME NEW S, NEW T, NEW x, IsFiniteSet(S), x \notin S, T = S \cup {x}
    PROVE  IsFiniteSet(T) /\ Cardinality(S) \in Nat /\ Cardinality(T) = Cardinality(S) + 1
BY FS_AddElement, FS_CardinalityType

(* The sizes the cap is about are numbers. *)
LEMMA KeptSize ==
    ASSUME StoreTypeInv, TrimInv
    PROVE  Cardinality(Kept) \in Nat /\ MaxRecords \in Nat /\ fails \in Nat
BY FS_CardinalityType, FindingStoreAssumption DEF StoreTypeInv, StoreTypeOK, TrimInv

(* Everything the trims count is finite. *)
LEMMA Sizes ==
    ASSUME StoreTypeInv, HistInv, TrimInv, NEW D
    PROVE  /\ Cardinality(Kept) \in Nat /\ MaxRecords \in Nat /\ fails \in Nat
           /\ IsFiniteSet(Kept \ Gone(D)) /\ Cardinality(Kept \ Gone(D)) \in Nat
           /\ IsFiniteSet(overwritten \ Gone(D)) /\ Cardinality(overwritten \ Gone(D)) \in Nat
           /\ IsFiniteSet(Trimming \ D) /\ Cardinality(Trimming \ D) \in Nat
<1>1. overwritten \ Gone(D) \subseteq Kept
  BY DEF HistInv
<1>2. MaxRecords \in Nat /\ fails \in Nat
  BY FindingStoreAssumption DEF StoreTypeInv, StoreTypeOK
<1>3. IsFiniteSet(Kept) /\ IsFiniteSet(Trimming)
  BY DEF TrimInv
<1>4. IsFiniteSet(Kept \ Gone(D)) /\ Cardinality(Kept \ Gone(D)) \in Nat /\ Cardinality(Kept) \in Nat
  BY <1>3, PartSize
<1>5. IsFiniteSet(overwritten \ Gone(D)) /\ Cardinality(overwritten \ Gone(D)) \in Nat
  BY <1>1, <1>3, PartSize
<1>6. IsFiniteSet(Trimming \ D) /\ Cardinality(Trimming \ D) \in Nat
  BY <1>3, PartSize
<1>. QED
  BY <1>2, <1>4, <1>5, <1>6

(* Calls that take a step before their put, and requests that list a row,   *)
(* leave every trim as it was.                                              *)
LEMMA EarlyKeepsTrim ==
    ASSUME TrimInv, UNCHANGED <<rows, fails, overwritten>>,
           \A s \in Recorders : rec'[s].step = rec[s].step \/ (rec[s].step \notin Late /\ rec'[s].step \notin Late),
           \A s \in Deleters : rec'[s].stale = rec[s].stale
    PROVE  TrimInv'
<1>1. Kept' = Kept /\ Trimming' = Trimming /\ Deleters' = Deleters
  BY DEF Kept, Trimming, Deleters, Late
<1>2. \A D \in SUBSET Deleters : Gone(D)' = Gone(D)
  BY DEF Gone
<1>3. \A D \in SUBSET Deleters : Within(D)'
  BY <1>1, <1>2 DEF TrimInv, Within
<1>. QED
  BY <1>1, <1>3 DEF TrimInv

(* A put may add a row, and is then a trim still to be decided on. *)
LEMMA PutKeepsTrim ==
    ASSUME StoreTypeInv, HistInv, TrimInv, NEW r \in Recorders, Put(r)
    PROVE  TrimInv'
<1>1. PICK c : c = rec[r].contract
  OBVIOUS
<1>2. /\ rec[r].step = "set" /\ rec'[r].step = "size"
      /\ \A s \in Recorders \ {r} : rec'[s] = rec[s]
      /\ fails' = fails /\ overwritten' = overwritten
      /\ \A d \in Contracts \ {c} : rows'[d] = rows[d]
  BY <1>1 DEF Put, StoreTypeInv, StoreTypeOK
<1>3. Trimming' = Trimming \cup {r} /\ r \notin Trimming /\ Deleters' = Deleters /\ r \notin Deleters
  BY <1>2 DEF Trimming, Deleters, Late
<1>4. Kept' \subseteq Kept \cup {c}
  BY <1>2 DEF Kept
<1>5. ASSUME NEW D \in SUBSET Deleters PROVE Within(D)'
  <2>1. Gone(D)' = Gone(D)
    BY <1>2, <1>3 DEF Gone, Deleters
  <2>2. Kept' \ Gone(D) \subseteq (Kept \ Gone(D)) \cup {c}
    BY <1>4
  <2>3. Cardinality(Kept' \ Gone(D)) \in Nat /\ Cardinality(Kept' \ Gone(D)) <= Cardinality(Kept \ Gone(D)) + 1
    BY <2>2, Sizes, OneMore
  <2>4. Trimming' \ D = (Trimming \ D) \cup {r} /\ r \notin Trimming \ D
    BY <1>3
  <2>5. Cardinality(Trimming' \ D) = Cardinality(Trimming \ D) + 1
    BY <2>4, Sizes, Joined
  <2>6. Within(D)
    BY DEF TrimInv
  <2>s. /\ Cardinality(Kept \ Gone(D)) \in Nat /\ Cardinality(overwritten \ Gone(D)) \in Nat
        /\ Cardinality(Trimming \ D) \in Nat /\ MaxRecords \in Nat /\ fails \in Nat
    BY Sizes
  <2>. QED
    BY <2>s, <1>2, <2>1, <2>3, <2>5, <2>6 DEF Within
<1>6. IsFiniteSet(Kept') /\ IsFiniteSet(Trimming')
  BY <1>3, <1>4, OneMore, FS_AddElement DEF TrimInv
<1>. QED
  BY <1>3, <1>5, <1>6 DEF TrimInv

(* A put that need not trim: the history is within its cap. *)
LEMMA DoneKeepsTrim ==
    ASSUME StoreTypeInv, HistInv, TrimInv, NEW r \in Recorders, rec[r].step \in {"size", "readAll"},
           rec' = [rec EXCEPT ![r] = IdleRec], Cardinality(Kept) <= MaxRecords,
           UNCHANGED <<rows, fails, overwritten>>
    PROVE  TrimInv'
<1>1. rec'[r].step = "idle" /\ \A s \in Recorders \ {r} : rec'[s] = rec[s]
  BY DEF StoreTypeInv, StoreTypeOK, IdleRec
<1>2. Kept' = Kept /\ Trimming' \subseteq Trimming /\ Deleters' = Deleters
  BY <1>1 DEF Kept, Trimming, Deleters, Late
<1>3. IsFiniteSet(Kept') /\ IsFiniteSet(Trimming')
  BY <1>2, FS_Subset DEF TrimInv
<1>4. ASSUME NEW D \in SUBSET Deleters PROVE Within(D)'
  <2>1. Gone(D)' = Gone(D)
    BY <1>1 DEF Gone, Deleters
  <2>2. Cardinality(Kept \ Gone(D)) <= Cardinality(Kept) /\ Cardinality(Kept) \in Nat
    BY PartSize DEF TrimInv
  <2>3. Cardinality(Trimming' \ D) \in Nat
    BY <1>3, PartSize
  <2>s. /\ Cardinality(Kept \ Gone(D)) \in Nat /\ Cardinality(overwritten \ Gone(D)) \in Nat
        /\ Cardinality(Trimming \ D) \in Nat /\ MaxRecords \in Nat /\ fails \in Nat
    BY Sizes
  <2>. QED
    <3>1. Kept' = Kept /\ fails' = fails /\ overwritten' = overwritten
      BY <1>2
    <3>2. Cardinality(Kept \ Gone(D)) <= MaxRecords + fails + Cardinality(overwritten \ Gone(D)) + Cardinality(Trimming' \ D)
      BY <2>s, <2>2, <2>3
    <3>. QED
      BY <2>1, <3>1, <3>2 DEF Within
<1>. QED
  BY <1>2, <1>3, <1>4 DEF TrimInv

(* A trim is decided on: it alone would leave what the cap allows. *)
LEMMA DecideKeepsTrim ==
    ASSUME StoreTypeInv, HistInv, TrimInv, NEW r \in Recorders, rec[r].step = "readAll",
           NEW stale \in SUBSET Contracts, Stale(stale),
           rec' = [rec EXCEPT ![r] = [@ EXCEPT !.step = "delete", !.stale = stale]],
           UNCHANGED <<rows, fails, overwritten>>
    PROVE  TrimInv'
<1>1. rec'[r].step = "delete" /\ rec'[r].stale = stale /\ \A s \in Recorders \ {r} : rec'[s] = rec[s]
  BY DEF StoreTypeInv, StoreTypeOK
<1>2. Kept' = Kept /\ Trimming' = Trimming /\ Deleters' = Deleters \cup {r} /\ r \notin Deleters
  BY <1>1 DEF Kept, Trimming, Deleters, Late
<1>3. ASSUME NEW D \in SUBSET (Deleters \cup {r}) PROVE Within(D)'
  <2>1. CASE r \in D
    <3>1. stale \subseteq Gone(D)'
      BY <1>1, <2>1 DEF Gone
    <3>2. Kept \ Gone(D)' \subseteq Kept \ stale /\ IsFiniteSet(Kept \ stale)
      BY <3>1, PartSize DEF TrimInv
    <3>3. Cardinality(Kept \ Gone(D)') <= MaxRecords /\ Cardinality(Kept \ Gone(D)') \in Nat
      BY <3>2, PartSize DEF Stale
    <3>4. Cardinality(overwritten \ Gone(D)') \in Nat
      <4>1. overwritten \ Gone(D)' \subseteq Kept
        BY DEF HistInv
      <4>. QED
        BY <4>1, PartSize DEF TrimInv
    <3>s. /\ Cardinality(Kept \ Gone(D)) \in Nat /\ Cardinality(overwritten \ Gone(D)) \in Nat
          /\ Cardinality(Trimming \ D) \in Nat /\ MaxRecords \in Nat /\ fails \in Nat
      BY Sizes
    <3>. QED
      BY <3>s, <1>2, <3>3, <3>4 DEF Within
  <2>2. CASE r \notin D
    <3>1. D \in SUBSET Deleters /\ Gone(D)' = Gone(D)
      BY <1>1, <1>2, <2>2 DEF Gone, Deleters
    <3>. QED
      BY <1>2, <3>1 DEF Within, TrimInv
  <2>. QED
    BY <2>1, <2>2
<1>. QED
  BY <1>2, <1>3 DEF TrimInv

(* A trim happens: what the invariant said of it now holds without it. *)
LEMMA DeleteKeepsTrim ==
    ASSUME StoreTypeInv, HistInv, TrimInv, NEW r \in Recorders, Delete(r)
    PROVE  TrimInv'
<1>1. PICK stale : stale = rec[r].stale
  OBVIOUS
<1>2. /\ rec[r].step = "delete" /\ rec'[r].step = "idle"
      /\ \A s \in Recorders \ {r} : rec'[s] = rec[s]
      /\ fails' = fails /\ overwritten' = overwritten \ stale
  BY <1>1 DEF Delete, Remove, StoreTypeInv, StoreTypeOK, IdleRec
<1>3. Kept' = Kept \ stale
  BY <1>1 DEF Delete, Remove, Kept
<1>4. Trimming' = Trimming \ {r} /\ Deleters' = Deleters \ {r} /\ r \in Deleters
  BY <1>2 DEF Trimming, Deleters, Late
<1>5. IsFiniteSet(Kept') /\ IsFiniteSet(Trimming')
  BY <1>3, <1>4, FS_Subset DEF TrimInv
<1>6. ASSUME NEW D \in SUBSET Deleters, r \notin D PROVE Within(D)'
  <2>1. PICK E \in SUBSET Deleters : E = D \cup {r}
    BY <1>4
  <2>2. Gone(D)' = Gone(D)
    BY <1>2, <1>6 DEF Gone, Deleters
  <2>3. Gone(E) = Gone(D) \cup stale
    BY <1>1, <2>1 DEF Gone
  <2>4. /\ Kept' \ Gone(D) = Kept \ Gone(E) /\ overwritten' \ Gone(D) = overwritten \ Gone(E)
        /\ Trimming' \ D = Trimming \ E
    BY <1>2, <1>3, <1>4, <2>1, <2>3
  <2>. QED
    BY <1>2, <2>1, <2>2, <2>4 DEF TrimInv, Within
<1>. QED
  BY <1>4, <1>5, <1>6 DEF TrimInv

(* A put that throws, or finds nothing to trim, leaves its row and is counted. *)
LEMMA FailKeepsTrim ==
    ASSUME StoreTypeInv, HistInv, TrimInv, NEW r \in Recorders, Fail(r) \/ FindsNothing(r),
           UNCHANGED <<rows, overwritten>>
    PROVE  TrimInv'
<1>1. /\ rec'[r].step = "idle" /\ \A s \in Recorders \ {r} : rec'[s] = rec[s]
      /\ fails' = fails + 1 /\ overwritten' = overwritten /\ rows' = rows
  BY DEF Fail, FindsNothing, StoreTypeInv, StoreTypeOK, IdleRec
<1>2. Kept' = Kept /\ Trimming' = Trimming \ {r} /\ Deleters' = Deleters \ {r}
  BY <1>1 DEF Kept, Trimming, Deleters, Late
<1>3. IsFiniteSet(Kept') /\ IsFiniteSet(Trimming')
  BY <1>2, FS_Subset DEF TrimInv
<1>4. ASSUME NEW D \in SUBSET Deleters, r \notin D PROVE Within(D)'
  <2>1. Gone(D)' = Gone(D)
    BY <1>1, <1>4 DEF Gone, Deleters
  <2>2. Trimming \ D \subseteq (Trimming' \ D) \cup {r} /\ IsFiniteSet(Trimming' \ D)
    BY <1>2, <1>3, PartSize
  <2>3. Cardinality(Trimming \ D) <= Cardinality(Trimming' \ D) + 1 /\ Cardinality(Trimming' \ D) \in Nat
    BY <2>2, OneMore
  <2>4. Within(D)
    BY DEF TrimInv
  <2>s. /\ Cardinality(Kept \ Gone(D)) \in Nat /\ Cardinality(overwritten \ Gone(D)) \in Nat
        /\ Cardinality(Trimming \ D) \in Nat /\ MaxRecords \in Nat /\ fails \in Nat
    BY Sizes
  <2>. QED
    BY <2>s, <1>1, <1>2, <2>1, <2>3, <2>4 DEF Within
<1>. QED
  BY <1>2, <1>3, <1>4 DEF TrimInv

(* After a clear, or the loss of the file, there is nothing to trim. *)
LEMMA ClearKeepsTrim ==
    ASSUME StoreTypeInv, HistInv, TrimInv, Clear \/ Lose
    PROVE  TrimInv'
<1>1. Kept' = {} /\ overwritten' \subseteq {} /\ rec' = rec /\ fails' = fails
  BY DEF Clear, Lose, Remove, Kept, StoreTypeInv, StoreTypeOK
<1>2. Trimming' = Trimming /\ Deleters' = Deleters
  BY <1>1 DEF Trimming, Deleters
<1>3. ASSUME NEW D \in SUBSET Deleters PROVE Within(D)'
  <2>1. Kept' \ Gone(D)' = {} /\ overwritten' \ Gone(D)' = {}
    BY <1>1
  <2>s. /\ Cardinality(Kept \ Gone(D)) \in Nat /\ Cardinality(overwritten \ Gone(D)) \in Nat
        /\ Cardinality(Trimming \ D) \in Nat /\ MaxRecords \in Nat /\ fails \in Nat
    BY Sizes
  <2>. QED
    <3>1. Cardinality(Kept' \ Gone(D)') = 0 /\ Cardinality(overwritten' \ Gone(D)') = 0
      BY <2>1, FS_EmptySet
    <3>2. fails' = fails /\ Trimming' = Trimming
      BY <1>1, <1>2
    <3>. QED
      BY <2>s, <3>1, <3>2 DEF Within
<1>. QED
  BY <1>1, <1>2, <1>3, FS_EmptySet DEF TrimInv

(* A look-up that brings a removed row back has overwritten its removal. *)
LEMMA UpdateKeepsTrim ==
    ASSUME StoreTypeInv, HistInv, TrimInv, NEW p \in Pricers, Update(p)
    PROVE  TrimInv'
<1>1. PICK c : c = pricer[p].contract
  OBVIOUS
<1>2. c \in Contracts /\ pricer[p].row # NoRow
  BY <1>1, FindingStoreAssumption DEF Update, StoreTypeInv, StoreTypeOK
<1>3. PICK row : row = [pricer[p].row EXCEPT !.floor = TRUE]
  OBVIOUS
<1>4. /\ rec' = rec /\ fails' = fails
      /\ \/ /\ rows' = [rows EXCEPT ![c] = row]
            /\ overwritten' = IF rows[c] = pricer[p].row THEN overwritten ELSE overwritten \cup {c}
         \/ rows' = rows /\ overwritten' = overwritten
  BY <1>1, <1>3 DEF Update
<1>5. Trimming' = Trimming /\ Deleters' = Deleters /\ \A D : Gone(D)' = Gone(D)
  BY <1>4 DEF Trimming, Deleters, Gone
<1>6. \/ Kept' \subseteq Kept /\ overwritten \subseteq overwritten' /\ overwritten' \subseteq Kept
      \/ Kept' \subseteq Kept \cup {c} /\ overwritten' = overwritten \cup {c} /\ c \notin overwritten
  <2>1. Kept' \subseteq Kept \cup {c}
    BY <1>4 DEF Kept, StoreTypeInv, StoreTypeOK
  <2>2. CASE c \in Kept
    BY <1>4, <2>1, <2>2 DEF HistInv
  <2>3. CASE c \notin Kept
    <3>1. rows[c] = NoRow /\ c \notin overwritten
      BY <1>2, <2>3 DEF Kept, HistInv
    <3>2. rows' = rows => Kept' = Kept
      BY DEF Kept
    <3>. QED
      BY <1>2, <1>4, <2>1, <3>1, <3>2 DEF HistInv
  <2>. QED
    BY <2>2, <2>3
<1>7. IsFiniteSet(Kept')
  BY <1>6, OneMore DEF TrimInv
<1>8. ASSUME NEW D \in SUBSET Deleters PROVE Within(D)'
  <2>0. PICK G : G = Gone(D)
    OBVIOUS
  <2>1. /\ Cardinality(Kept \ G)
             <= MaxRecords + fails + Cardinality(overwritten \ G) + Cardinality(Trimming \ D)
        /\ Cardinality(Kept \ G) \in Nat /\ Cardinality(overwritten \ G) \in Nat
        /\ IsFiniteSet(Kept \ G) /\ IsFiniteSet(overwritten \ G)
        /\ Cardinality(Trimming \ D) \in Nat /\ MaxRecords \in Nat /\ fails \in Nat
    BY <2>0, Sizes DEF TrimInv, Within
  <2>a. SUFFICES Cardinality(Kept' \ G)
             <= MaxRecords + fails + Cardinality(overwritten' \ G) + Cardinality(Trimming \ D)
    <3>1. Gone(D)' = G /\ fails' = fails /\ Trimming' = Trimming
      BY <1>4, <1>5, <2>0
    <3>. QED
      BY <3>1 DEF Within
  <2>2. CASE Kept' \subseteq Kept /\ overwritten \subseteq overwritten' /\ overwritten' \subseteq Kept
    <3>1. /\ Kept' \ G \subseteq Kept \ G /\ overwritten \ G \subseteq overwritten' \ G
          /\ IsFiniteSet(Kept \ G) /\ IsFiniteSet(overwritten' \ G)
      BY <2>2, PartSize DEF TrimInv
    <3>2. /\ Cardinality(Kept' \ G) <= Cardinality(Kept \ G)
          /\ Cardinality(overwritten \ G) <= Cardinality(overwritten' \ G)
          /\ Cardinality(Kept' \ G) \in Nat /\ Cardinality(overwritten' \ G) \in Nat
      BY <3>1, PartSize
    <3>. QED
      BY <2>1, <3>2
  <2>3. CASE Kept' \subseteq Kept \cup {c} /\ overwritten' = overwritten \cup {c} /\ c \notin overwritten
    <3>1. CASE c \in G
      <4>1. Kept' \ G \subseteq Kept \ G /\ overwritten' \ G = overwritten \ G
        BY <2>3, <3>1
      <4>2. Cardinality(Kept' \ G) <= Cardinality(Kept \ G) /\ Cardinality(Kept' \ G) \in Nat
        BY <2>1, <4>1, PartSize
      <4>3. Cardinality(overwritten' \ G) = Cardinality(overwritten \ G)
        BY <4>1
      <4>. QED
        BY <2>1, <4>2, <4>3
    <3>2. CASE c \notin G
      <4>1. /\ Kept' \ G \subseteq (Kept \ G) \cup {c} /\ overwritten' \ G = (overwritten \ G) \cup {c}
            /\ c \notin overwritten \ G
        BY <2>3, <3>2
      <4>2. Cardinality(Kept' \ G) <= Cardinality(Kept \ G) + 1 /\ Cardinality(Kept' \ G) \in Nat
        BY <2>1, <4>1, OneMore
      <4>3. Cardinality(overwritten' \ G) = Cardinality(overwritten \ G) + 1
        BY <2>1, <4>1, Joined
      <4>. QED
        BY <2>1, <4>2, <4>3
    <3>. QED
      BY <3>1, <3>2
  <2>. QED
    BY <1>6, <2>2, <2>3
<1>. QED
  BY <1>5, <1>7, <1>8 DEF TrimInv

(* Every command on the history keeps the bound on what trims leave. *)
LEMMA TrimStep == StoreTypeInv /\ HistInv /\ TrimInv /\ [StoreNext]_storeVars => TrimInv'
<1> SUFFICES ASSUME StoreTypeInv, HistInv, TrimInv, [StoreNext]_storeVars PROVE TrimInv'
  OBVIOUS
<1>1. ASSUME NEW r \in Recorders, NEW c \in Contracts, Start(r, c) PROVE TrimInv'
  <2>1. rec[r].step = "idle" /\ rec'[r].step = "get" /\ \A s \in Recorders \ {r} : rec'[s] = rec[s]
    BY <1>1 DEF Start, IdleRec, StoreTypeInv, StoreTypeOK
  <2>2. UNCHANGED <<rows, fails, overwritten>>
    BY <1>1 DEF Start
  <2>. QED
    BY <2>1, <2>2, EarlyKeepsTrim DEF Late, Deleters
<1>2. ASSUME NEW r \in Recorders, Get(r) PROVE TrimInv'
  <2>1. rec[r].step = "get" /\ rec'[r].step = "set" /\ \A s \in Recorders \ {r} : rec'[s] = rec[s]
    BY <1>2 DEF Get, StoreTypeInv, StoreTypeOK
  <2>2. UNCHANGED <<rows, fails, overwritten>>
    BY <1>2 DEF Get
  <2>. QED
    BY <2>1, <2>2, EarlyKeepsTrim DEF Late, Deleters
<1>3. ASSUME NEW r \in Recorders, Put(r) PROVE TrimInv'
  BY <1>3, PutKeepsTrim
<1>4. ASSUME NEW r \in Recorders, Size(r) PROVE TrimInv'
  <2>1. rec[r].step = "size" /\ UNCHANGED <<rows, overwritten>>
    BY <1>4 DEF Size
  <2>2. CASE UNCHANGED fails /\ rec' = [rec EXCEPT ![r] = [@ EXCEPT !.step = "readAll"]]
    <3>1. rec'[r].step = "readAll" /\ rec'[r].stale = rec[r].stale /\ \A s \in Recorders \ {r} : rec'[s] = rec[s]
      BY <2>2 DEF StoreTypeInv, StoreTypeOK
    <3>2. Trimming' = Trimming /\ Deleters' = Deleters /\ Kept' = Kept
      BY <2>1, <3>1 DEF Trimming, Deleters, Kept, Late
    <3>3. \A D \in SUBSET Deleters : Gone(D)' = Gone(D)
      BY <2>1, <3>1 DEF Gone, Deleters
    <3>4. \A D \in SUBSET Deleters : Within(D)'
      BY <2>1, <2>2, <3>2, <3>3 DEF TrimInv, Within
    <3>. QED
      BY <3>2, <3>4 DEF TrimInv
  <2>3. CASE Cardinality(Kept) <= MaxRecords /\ rec' = [rec EXCEPT ![r] = IdleRec] /\ UNCHANGED fails
    BY <2>1, <2>3, DoneKeepsTrim
  <2>4. CASE FindsNothing(r)
    BY <2>1, <2>4, FailKeepsTrim
  <2>. QED
    BY <1>4, <2>2, <2>3, <2>4 DEF Size
<1>5. ASSUME NEW r \in Recorders, ReadAll(r) PROVE TrimInv'
  <2>1. Cardinality(Kept) < MaxRecords => Cardinality(Kept) <= MaxRecords
    BY KeptSize
  <2>. QED
    BY <1>5, <2>1, DecideKeepsTrim, DoneKeepsTrim, FailKeepsTrim DEF ReadAll
<1>6. ASSUME NEW r \in Recorders, Delete(r) PROVE TrimInv'
  BY <1>6, DeleteKeepsTrim
<1>7. ASSUME NEW r \in Recorders, Fail(r) PROVE TrimInv'
  BY <1>7, FailKeepsTrim DEF Fail
<1>8. CASE Clear \/ Lose
  BY <1>8, ClearKeepsTrim
<1>9. ASSUME NEW p \in Pricers, Update(p) PROVE TrimInv'
  BY <1>9, UpdateKeepsTrim
<1>10. CASE UNCHANGED <<rows, rec, fails, overwritten>>
  BY <1>10, EarlyKeepsTrim
<1>11. ASSUME NEW p \in Pricers, NEW c \in Contracts, List(p, c) PROVE TrimInv'
  BY <1>10, <1>11 DEF List
<1>12. CASE UNCHANGED storeVars
  BY <1>10, <1>12 DEF storeVars
<1>. QED
  BY <1>1, <1>2, <1>3, <1>4, <1>5, <1>6, <1>7, <1>8, <1>9, <1>11, <1>12 DEF StoreNext, Recorder

(* Whatever puts, trims, failures and price look-ups meet, the history is    *)
(* within its cap between puts (store.ts: MAX_RECORDS), one row aside for   *)
(* every put that threw before it could trim or whose size or list came     *)
(* back empty, and every removed row that a look-up brought back.           *)
THEOREM CapSafe == StoreSpec => []CapAtRest
<1>1. StoreInit => TrimInv
  <2> SUFFICES ASSUME StoreInit PROVE TrimInv
    OBVIOUS
  <2>1. Kept = {} /\ Trimming = {} /\ Deleters = {} /\ overwritten = {} /\ fails = 0
    BY DEF StoreInit, Kept, Trimming, Deleters, Late, IdleRec
  <2>2. ASSUME NEW D \in SUBSET Deleters PROVE Within(D)
    <3>1. Kept \ Gone(D) = {} /\ overwritten \ Gone(D) = {} /\ Trimming \ D = {}
      BY <2>1
    <3>. QED
      BY <2>1, <3>1, FS_EmptySet, FindingStoreAssumption DEF Within
  <2>. QED
    BY <2>1, <2>2, FS_EmptySet DEF TrimInv
<1>2. StoreTypeInv /\ HistInv /\ TrimInv => CapAtRest
  <2> SUFFICES ASSUME StoreTypeInv, HistInv, TrimInv, \A r \in Recorders : rec[r].step = "idle"
               PROVE  Cardinality(Kept) <= MaxRecords + fails + Cardinality(overwritten)
    BY DEF CapAtRest
  <2>1. Trimming = {} /\ {} \in SUBSET Deleters
    BY DEF Trimming, Late
  <2>2. Gone({}) = {}
    BY DEF Gone
  <2>3. Kept \ Gone({}) = Kept /\ overwritten \ Gone({}) = overwritten /\ Trimming \ {} = {}
    BY <2>1, <2>2
  <2>4. Within({})
    BY <2>1 DEF TrimInv
  <2>5. Cardinality(overwritten) \in Nat
    BY <2>3, Sizes
  <2>6. Cardinality(Kept) \in Nat /\ MaxRecords \in Nat /\ fails \in Nat
    BY KeptSize
  <2>7. Cardinality(Trimming \ {}) = 0
    BY <2>3, FS_EmptySet
  <2>. QED
    BY <2>3, <2>4, <2>5, <2>6, <2>7 DEF Within
<1>. QED
  BY <1>1, <1>2, TrimStep, HistInvHolds, StoreTypeHolds, PTL DEF StoreSpec
============================================================================
