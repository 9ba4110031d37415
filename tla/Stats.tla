------------------------------- MODULE Stats -------------------------------
(***************************************************************************)
(* stats.go: one recorder that goroutines change, and one goroutine that   *)
(* reads a recorder or a snapshot field by field, as NewStatsRecorder,     *)
(* Delta and Equal do.  Each method of the recorder is one step under its  *)
(* lock; between two reads of another Stats there is none.                 *)
(*                                                                         *)
(* A Stats is a function from fields to numbers: the totals and failures   *)
(* of the operations and the two byte counters.                            *)
(*                                                                         *)
(* A definition called "wrong" in its comment is not part of the model: it *)
(* is the next one with a mistake in it, which some property must notice.  *)
(***************************************************************************)
EXTENDS Integers, Sequences, FiniteSets

CONSTANTS
  OpRead, OpWrite,  \* the operations that count bytes, in their order
  MaxInt,           \* the largest int; a counter is a uint64 and goes further
  Live,             \* stands for the recorder where a Stats is meant
  Nobody,           \* no reader
  MaxChanges,       \* bound: changes of the recorder
  MaxReadings       \* bound: snapshots, copies and comparisons

Counted == {OpRead, OpWrite}

Total(op)   == <<"total", op>>
Failure(op) == <<"failure", op>>
BytesRead    == <<"bytes", "read">>
BytesWritten == <<"bytes", "written">>

Fields == {Total(op) : op \in Counted} \cup {Failure(op) : op \in Counted}
            \cup {BytesRead, BytesWritten}

ASSUME StatsAssumption ==
  /\ OpRead # OpWrite
  /\ MaxInt \in Nat \ {0} /\ MaxChanges \in Nat /\ MaxReadings \in Nat

VARIABLES
  recorder,  \* statsRecorder
  kept,      \* the Stats value that a caller has kept: a snapshot or a Delta
  reader,    \* the call that reads field by field, or Nobody
  outcome,   \* what the last such call has returned, Nobody before and during it
  changes,   \* changes so far
  readings,  \* readings so far
  had        \* history: the values of each field that is read, since the call began

statsVars == <<recorder, kept, reader, outcome, changes, readings, had>>

Zero == [f \in Fields |-> 0]

ClampToInt(v) == IF v > MaxInt THEN MaxInt ELSE v

\* int wraps around.
Wrap(v) == ((v + MaxInt + 1) % (2 * MaxInt + 2)) - MaxInt - 1

\* statsRecorder.Snapshot
SnapshotOf(r) == [f \in Fields |-> ClampToInt(r[f])]

\* The value that a Stats shows now.
Shown(stats) == IF stats = Live THEN SnapshotOf(recorder) ELSE stats

-----------------------------------------------------------------------------
(* Changes of the recorder *)

Changed(r) ==
  /\ changes < MaxChanges /\ changes' = changes + 1
  /\ recorder' = r
  /\ had' = IF reader # Nobody /\ reader.other = Live
            THEN [f \in Fields |-> had[f] \cup {SnapshotOf(r)[f]}] ELSE had
  /\ UNCHANGED <<kept, reader, outcome, readings>>

\* Wrong: a failure is not counted as a call.
RecordEither(op, bytes, failed) == Changed([recorder EXCEPT
  ![Total(op)]   = @ + IF failed THEN 0 ELSE 1,
  ![Failure(op)] = @ + IF failed THEN 1 ELSE 0])

\* Bytes count whether or not the call has failed.
Record(op, bytes, failed) == Changed([recorder EXCEPT
  ![Total(op)]    = @ + 1,
  ![Failure(op)]  = @ + IF failed THEN 1 ELSE 0,
  ![BytesRead]    = @ + IF op = OpRead THEN bytes ELSE 0,
  ![BytesWritten] = @ + IF op = OpWrite THEN bytes ELSE 0])

\* Wrong: off by one.
SetRefusesAll(total, failures) == failures < 0 \/ failures >= total

SetRefuses(total, failures) == failures < 0 \/ failures > total

\* Set and SetBytes panic before they take the lock, and then change nothing.
Set(op, total, failures) ==
  /\ ~SetRefuses(total, failures)
  /\ Changed([recorder EXCEPT ![Total(op)] = total, ![Failure(op)] = failures])

SetBytes(read, wrote) ==
  /\ read >= 0 /\ wrote >= 0
  /\ Changed([recorder EXCEPT ![BytesRead] = read, ![BytesWritten] = wrote])

ResetStats == Changed(Zero)

Change ==
  \/ \E op \in Counted, bytes \in {0, 1}, failed \in BOOLEAN : Record(op, bytes, failed)
  \/ \E op \in Counted, total, failures \in {-1, 0, MaxInt} : Set(op, total, failures)
  \/ \E read, wrote \in {-1, MaxInt} : SetBytes(read, wrote)
  \/ ResetStats

-----------------------------------------------------------------------------
(* Readings *)

Snapshot ==
  /\ readings < MaxReadings /\ readings' = readings + 1
  /\ reader = Nobody
  /\ kept' = SnapshotOf(recorder)
  /\ UNCHANGED <<recorder, reader, outcome, changes, had>>

\* The reads of other, in the order of the code.
CountsOf(op) == <<Total(op), Failure(op)>>
Order(kind) ==
  IF kind = "copy" THEN CountsOf(OpRead) \o CountsOf(OpWrite) \o <<BytesRead, BytesWritten>>
  ELSE <<BytesRead, BytesWritten>> \o CountsOf(OpRead) \o CountsOf(OpWrite)

\* Delta and Equal of a recorder are those of its snapshot.
Begin(kind, mine, other) ==
  /\ readings < MaxReadings /\ readings' = readings + 1
  /\ reader = Nobody
  /\ reader' = [kind |-> kind, mine |-> Shown(mine), other |-> other, got |-> <<>>]
  /\ outcome' = Nobody
  /\ had' = [f \in Fields |-> {Shown(other)[f]}]
  /\ UNCHANGED <<recorder, kept, changes>>

NewStatsRecorder == \E other \in {Live, kept} : Begin("copy", kept, other)
Delta == \E mine, other \in {Live, kept} : Begin("delta", mine, other)
Equal == \E mine, other \in {Live, kept} : Begin("equal", mine, other)

\* What has been read of field f: reader.got has the values read so far.
GotField(got, kind, f) == got[CHOOSE i \in 1 .. Len(Order(kind)) : Order(kind)[i] = f]
Read(got, kind) == [f \in Fields |-> GotField(got, kind, f)]

\* The counts of an operation have been read, and Set is called with them.
SetPanics(got) ==
  /\ Len(got) \in {2, 4}
  /\ LET total == got[Len(got) - 1]  failures == got[Len(got)]
     IN (total > 0 \/ failures > 0) /\ SetRefuses(total, failures)

SetBytesPanics(got) == Len(got) = 6 /\ (got[5] < 0 \/ got[6] < 0)

\* Wrong: a copy has the failures of one operation at another one.
CopySwapped(values) == [values EXCEPT ![Failure(OpRead)]  = values[Failure(OpWrite)],
                                      ![Failure(OpWrite)] = values[Failure(OpRead)]]

\* An operation without a positive count is left at zero.
Copy(values) == [f \in Fields |->
  IF \E op \in Counted : f \in {Total(op), Failure(op)}
                     /\ values[Total(op)] <= 0 /\ values[Failure(op)] <= 0
  THEN 0 ELSE values[f]]

Difference(mine, values) == [f \in Fields |-> Wrap(mine[f] - values[f])]

\* Equal stops at the first difference.
Differs(got) == reader.kind = "equal" /\ got[Len(got)] # reader.mine[Order("equal")[Len(got)]]

Return(what, value) ==
  /\ reader' = Nobody
  /\ outcome' = [kind |-> reader.kind, mine |-> reader.mine, other |-> reader.other,
                 what |-> what, value |-> value]

ReadField ==
  LET kind == reader.kind
      got  == Append(reader.got, Shown(reader.other)[Order(kind)[Len(reader.got) + 1]])
  IN /\ reader # Nobody
     /\ IF kind = "copy" /\ (SetPanics(got) \/ SetBytesPanics(got)) THEN Return("panic", got)
        ELSE IF Differs(got) THEN Return("different", got)
        ELSE IF Len(got) < Len(Order(kind))
          THEN reader' = [reader EXCEPT !.got = got] /\ UNCHANGED outcome
        ELSE Return(IF kind = "equal" THEN "equal" ELSE "stats",
                    IF kind = "copy" THEN Copy(Read(got, kind))
                    ELSE Difference(reader.mine, Read(got, kind)))
     /\ UNCHANGED <<recorder, kept, changes, readings, had>>

\* The caller keeps the difference.
KeepDelta ==
  /\ outcome # Nobody /\ outcome.kind = "delta" /\ reader = Nobody
  /\ kept' = outcome.value
  /\ outcome' = Nobody
  /\ UNCHANGED <<recorder, reader, changes, readings, had>>

StatsInit ==
  /\ recorder = Zero /\ kept = Zero
  /\ reader = Nobody /\ outcome = Nobody
  /\ changes = 0 /\ readings = 0
  /\ had = [f \in Fields |-> {}]

StatsNext ==
  \/ Change \/ Snapshot \/ NewStatsRecorder \/ Delta \/ Equal \/ ReadField \/ KeepDelta

-----------------------------------------------------------------------------
(* Properties *)

\* What a recorder can hold, as far as an int shows it.
Possible(v) ==
  /\ v \in [Fields -> 0 .. MaxInt]
  /\ \A op \in Counted : v[Failure(op)] <= v[Total(op)]

\* Types; failures never exceed totals, in the recorder, in what it shows when
\* its counters are beyond MaxInt, and in a copy made while it changes.
StatsTypeOK ==
  /\ \A f \in Fields : recorder[f] >= 0
  /\ \A op \in Counted : recorder[Failure(op)] <= recorder[Total(op)]
  /\ Possible(SnapshotOf(recorder))
  /\ kept \in [Fields -> -(MaxInt + 1) .. MaxInt]
  /\ reader = Nobody \/ Len(reader.got) < Cardinality(Fields)
  /\ outcome # Nobody /\ outcome.kind = "copy" /\ outcome.what = "stats" => Possible(outcome.value)

\* An operation that a copy leaves out, as it shows no positive count.
LeftOut(v, op) == v[Total(op)] <= 0 /\ v[Failure(op)] <= 0

\* NewStatsRecorder, Delta and Equal read a recorder field by field while others
\* change it.  Each field of the result comes from a value that the field had
\* during the call, so that the result is exact when nothing has changed; Equal
\* is true or false for the fields so read.
ResultsFromTheCall == outcome # Nobody =>
  LET mine == outcome.mine  value == outcome.value
  IN CASE outcome.what = "panic" -> TRUE
       [] outcome.what = "equal" -> \A f \in Fields : mine[f] \in had[f]
       [] outcome.what = "different" -> \E f \in Fields : \E v \in had[f] : v # mine[f]
       [] outcome.what = "stats" /\ outcome.kind = "delta" ->
            \A f \in Fields : \E v \in had[f] : value[f] = Wrap(mine[f] - v)
       [] outcome.what = "stats" /\ outcome.kind = "copy" -> \A f \in Fields :
            \/ value[f] \in had[f]
            \/ /\ value[f] = 0 /\ outcome.other # Live
               /\ \E op \in Counted : f \in {Total(op), Failure(op)} /\ LeftOut(outcome.other, op)

\* NewStatsRecorder reaches the panics of Set and SetBytes in two ways only: by
\* a Delta that no recorder can hold, or by a recorder whose counts for an
\* operation change between the read of the total and that of the failures.
PanicsOnlyWhenTorn == outcome # Nobody /\ outcome.what = "panic" =>
  IF outcome.other = Live
    THEN \E op \in Counted : /\ Cardinality(had[Failure(op)]) > 1
                             /\ \E t \in had[Total(op)], n \in had[Failure(op)] : n > t
    ELSE ~Possible(outcome.other)
=============================================================================
