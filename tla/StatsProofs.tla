---------------------------- MODULE StatsProofs ----------------------------
(***************************************************************************)
(* Proofs about the recorder and the calls that read a Stats field by      *)
(* field, for any size of int and any number of changes and readings.      *)
(***************************************************************************)
EXTENDS Stats, SequenceTheorems, FiniteSetTheorems, TLAPS

StatsSpec == StatsInit /\ [][StatsNext]_statsVars

Ints   == -(MaxInt + 1) .. MaxInt
Values == [Fields -> Ints]
Kinds  == {"copy", "delta", "equal"}

-----------------------------------------------------------------------------
(* Fields and the order in which they are read *)

\* The six fields.
LEMMA SixFields ==
  /\ Fields = {Total(OpRead), Failure(OpRead), Total(OpWrite), Failure(OpWrite),
               BytesRead, BytesWritten}
  /\ Total(OpRead) # Total(OpWrite) /\ Failure(OpRead) # Failure(OpWrite)
  /\ \A o, w \in Counted : Total(o) # Failure(w)
  /\ \A o \in Counted : /\ Total(o) \notin {BytesRead, BytesWritten}
                        /\ Failure(o) \notin {BytesRead, BytesWritten}
  /\ BytesRead # BytesWritten
<1>1. Fields = {Total(OpRead), Failure(OpRead), Total(OpWrite), Failure(OpWrite),
                BytesRead, BytesWritten}
  BY DEF Fields, Counted
<1>2. \A o, w : /\ Total(o)[1] = "total" /\ Failure(o)[1] = "failure"
                /\ Total(o)[2] = o /\ Failure(o)[2] = o
  BY DEF Total, Failure
<1>3. BytesRead[1] = "bytes" /\ BytesWritten[1] = "bytes" /\ BytesRead[2] # BytesWritten[2]
  BY DEF BytesRead, BytesWritten
<1>4. OpRead # OpWrite
  BY StatsAssumption
<1> QED
  BY <1>1, <1>2, <1>3, <1>4

\* Two short sequences in a row.
LEMMA PairAndPair ==
  ASSUME NEW a, NEW b, NEW c, NEW d
  PROVE  <<a, b>> \o <<c, d>> = <<a, b, c, d>>
<1> DEFINE S == {a, b, c, d}
           w == <<a, b, c, d>>
<1>1. <<a, b>> \in Seq(S) /\ <<c, d>> \in Seq(S) /\ w \in Seq(S)
  OBVIOUS
<1>2. /\ <<a, b>> \o <<c, d>> \in Seq(S)
      /\ Len(<<a, b>> \o <<c, d>>) = 4
      /\ \A i \in 1 .. 4 : (<<a, b>> \o <<c, d>>)[i] =
           IF i <= 2 THEN <<a, b>>[i] ELSE <<c, d>>[i - 2]
  BY <1>1, ConcatProperties
<1>3. \A i \in 1 .. 4 : (<<a, b>> \o <<c, d>>)[i] = w[i]
  BY <1>2
<1>4. Len(w) = 4
  OBVIOUS
<1> QED
  BY <1>1, <1>2, <1>3, <1>4, SeqEqual

\* A longer and a short one.
LEMMA FourAndTwo ==
  ASSUME NEW a, NEW b, NEW c, NEW d, NEW x, NEW y
  PROVE  <<a, b, c, d>> \o <<x, y>> = <<a, b, c, d, x, y>>
<1> DEFINE S == {a, b, c, d, x, y}
           w == <<a, b, c, d, x, y>>
<1>1. <<a, b, c, d>> \in Seq(S) /\ <<x, y>> \in Seq(S) /\ w \in Seq(S)
  OBVIOUS
<1>2. /\ <<a, b, c, d>> \o <<x, y>> \in Seq(S)
      /\ Len(<<a, b, c, d>> \o <<x, y>>) = 6
      /\ \A i \in 1 .. 6 : (<<a, b, c, d>> \o <<x, y>>)[i] =
           IF i <= 4 THEN <<a, b, c, d>>[i] ELSE <<x, y>>[i - 4]
  BY <1>1, ConcatProperties
<1>3. \A i \in 1 .. 6 : (<<a, b, c, d>> \o <<x, y>>)[i] = w[i]
  BY <1>2
<1>4. Len(w) = 6
  OBVIOUS
<1> QED
  BY <1>1, <1>2, <1>3, <1>4, SeqEqual

\* NewStatsRecorder reads the operations first, Delta and Equal the bytes.
LEMMA Orders ==
  /\ Order("copy") = <<Total(OpRead), Failure(OpRead), Total(OpWrite), Failure(OpWrite),
                       BytesRead, BytesWritten>>
  /\ \A kind \in {"delta", "equal"} : Order(kind) =
       <<BytesRead, BytesWritten, Total(OpRead), Failure(OpRead),
         Total(OpWrite), Failure(OpWrite)>>
<1>1. ASSUME NEW a, NEW b, NEW c, NEW d, NEW x, NEW y
      PROVE  <<a, b>> \o <<c, d>> \o <<x, y>> = <<a, b, c, d, x, y>>
  <2>1. <<a, b>> \o <<c, d>> = <<a, b, c, d>>
    BY PairAndPair
  <2>2. <<a, b, c, d>> \o <<x, y>> = <<a, b, c, d, x, y>>
    BY FourAndTwo
  <2> QED
    BY <2>1, <2>2
<1>2. <<Total(OpRead), Failure(OpRead)>> \o <<Total(OpWrite), Failure(OpWrite)>>
      \o <<BytesRead, BytesWritten>> =
        <<Total(OpRead), Failure(OpRead), Total(OpWrite), Failure(OpWrite),
          BytesRead, BytesWritten>>
  BY <1>1
<1>3. <<BytesRead, BytesWritten>> \o <<Total(OpRead), Failure(OpRead)>>
      \o <<Total(OpWrite), Failure(OpWrite)>> =
        <<BytesRead, BytesWritten, Total(OpRead), Failure(OpRead),
          Total(OpWrite), Failure(OpWrite)>>
  BY <1>1
<1>4. Order("copy") = <<Total(OpRead), Failure(OpRead)>>
                      \o <<Total(OpWrite), Failure(OpWrite)>> \o <<BytesRead, BytesWritten>>
  BY DEF Order, CountsOf
<1>5. \A kind \in {"delta", "equal"} : Order(kind) =
        <<BytesRead, BytesWritten>> \o <<Total(OpRead), Failure(OpRead)>>
        \o <<Total(OpWrite), Failure(OpWrite)>>
  BY DEF Order, CountsOf
<1> QED
  BY <1>2, <1>3, <1>4, <1>5, Zenon

\* Each field is read once.
LEMMA EachFieldOnce ==
  ASSUME NEW kind \in Kinds
  PROVE  /\ Len(Order(kind)) = 6
         /\ \A i \in 1 .. 6 : Order(kind)[i] \in Fields
         /\ \A i, j \in 1 .. 6 : Order(kind)[i] = Order(kind)[j] => i = j
         /\ \A f \in Fields : \E i \in 1 .. 6 : Order(kind)[i] = f
<1>1. 1 .. 6 = {1, 2, 3, 4, 5, 6}
  OBVIOUS
<1>2. OpRead \in Counted /\ OpWrite \in Counted
  BY DEF Counted
<1>3. CASE kind = "copy"
  BY <1>1, <1>2, <1>3, Orders, SixFields
<1>4. CASE kind # "copy"
  BY <1>1, <1>2, <1>4, Orders, SixFields DEF Kinds
<1> QED
  BY <1>3, <1>4

\* What has been read is found at its field.
LEMMA ReadAtField ==
  ASSUME NEW kind \in Kinds, NEW got, NEW i \in 1 .. 6
  PROVE  Read(got, kind)[Order(kind)[i]] = got[i]
<1>1. /\ Len(Order(kind)) = 6 /\ Order(kind)[i] \in Fields
      /\ \A j, k \in 1 .. 6 : Order(kind)[j] = Order(kind)[k] => j = k
  BY EachFieldOnce
<1>2. (CHOOSE j \in 1 .. 6 : Order(kind)[j] = Order(kind)[i]) = i
  BY <1>1
<1> QED
  BY <1>1, <1>2 DEF Read, GotField

\* There are six fields.
LEMMA CountFields == IsFiniteSet(Fields) /\ Cardinality(Fields) = 6
<1>1. \A S, x : IsFiniteSet(S) /\ x \notin S =>
        IsFiniteSet(S \cup {x}) /\ Cardinality(S \cup {x}) = Cardinality(S) + 1
  BY FS_AddElement
<1>2. OpRead \in Counted /\ OpWrite \in Counted
  BY DEF Counted
<1> DEFINE A == {Total(OpRead)}
           B == A \cup {Failure(OpRead)}
           C == B \cup {Total(OpWrite)}
           D == C \cup {Failure(OpWrite)}
           E == D \cup {BytesRead}
           F == E \cup {BytesWritten}
<1>3. IsFiniteSet(A) /\ Cardinality(A) = 1
  BY FS_Singleton
<1>4. /\ Failure(OpRead) \notin A /\ Total(OpWrite) \notin B /\ Failure(OpWrite) \notin C
      /\ BytesRead \notin D /\ BytesWritten \notin E
  BY <1>2, SixFields
<1>5. Fields = F
  BY SixFields
<1> HIDE DEF A, B, C, D, E, F
<1>6. IsFiniteSet(B) /\ Cardinality(B) = 2
  BY <1>1, <1>3, <1>4 DEF B
<1>7. IsFiniteSet(C) /\ Cardinality(C) = 3
  BY <1>1, <1>4, <1>6 DEF C
<1>8. IsFiniteSet(D) /\ Cardinality(D) = 4
  BY <1>1, <1>4, <1>7 DEF D
<1>9. IsFiniteSet(E) /\ Cardinality(E) = 5
  BY <1>1, <1>4, <1>8 DEF E
<1>10. IsFiniteSet(F) /\ Cardinality(F) = 6
  BY <1>1, <1>4, <1>9 DEF F
<1> QED
  BY <1>5, <1>10

-----------------------------------------------------------------------------
(* Numbers *)

\* Wrap gives an int.
LEMMA WrapsToInt ==
  ASSUME NEW v \in Int
  PROVE  Wrap(v) \in Ints
<1>1. MaxInt \in Nat /\ 2 * MaxInt + 2 \in Nat \ {0} /\ v + MaxInt + 1 \in Int
  BY StatsAssumption
<1>2. \A a \in Int, b \in Nat \ {0} : a % b \in 0 .. b - 1
  OBVIOUS
<1>3. (v + MaxInt + 1) % (2 * MaxInt + 2) \in 0 .. (2 * MaxInt + 2) - 1
  BY <1>1, <1>2
<1> QED
  BY <1>1, <1>3 DEF Wrap, Ints

\* What a recorder can hold.
Holds(r) ==
  /\ r \in [Fields -> Nat]
  /\ \A op \in Counted : r[Failure(op)] <= r[Total(op)]

\* Clamping keeps the order of failures and totals.
LEMMA SnapshotPossible ==
  ASSUME NEW r, Holds(r)
  PROVE  SnapshotOf(r) \in Values /\ Possible(SnapshotOf(r))
<1>1. MaxInt \in Nat
  BY StatsAssumption
<1>2. \A op \in Counted : Total(op) \in Fields /\ Failure(op) \in Fields
  BY DEF Fields
<1>3. \A f \in Fields : SnapshotOf(r)[f] = ClampToInt(r[f]) /\ r[f] \in Nat
  BY DEF SnapshotOf, Holds
<1>4. \A n \in Nat : ClampToInt(n) \in 0 .. MaxInt
  BY <1>1 DEF ClampToInt
<1>5. \A n, m \in Nat : n <= m => ClampToInt(n) <= ClampToInt(m)
  BY <1>1 DEF ClampToInt
<1>6. SnapshotOf(r) \in [Fields -> 0 .. MaxInt]
  BY <1>3, <1>4 DEF SnapshotOf
<1>7. \A op \in Counted : SnapshotOf(r)[Failure(op)] <= SnapshotOf(r)[Total(op)]
  BY <1>2, <1>3, <1>5 DEF Holds
<1>8. 0 .. MaxInt \subseteq Ints
  BY <1>1 DEF Ints
<1> QED
  BY <1>6, <1>7, <1>8 DEF Possible, Values

-----------------------------------------------------------------------------
(* The invariant *)

\* Set panics with these counts, if it is called with them.
Bad(total, failures) == (total > 0 \/ failures > 0) /\ SetRefuses(total, failures)

\* What the fields of other have shown since its reading began.  Of a recorder,
\* each total came with failures that did not exceed it.
HadFrom(other) ==
  /\ had \in [Fields -> SUBSET Ints]
  /\ \A f \in Fields : IsFiniteSet(had[f])
  /\ other # Live => other \in Values /\ \A f \in Fields : had[f] = {other[f]}
  /\ other = Live =>
       /\ \A f \in Fields : /\ had[f] \subseteq 0 .. MaxInt
                            /\ SnapshotOf(recorder)[f] \in had[f]
       /\ \A op \in Counted : \A t \in had[Total(op)] : \E n \in had[Failure(op)] : n <= t

\* What has been read was there, and has not ended the call.
GotFrom(kind, mine, got) ==
  /\ \A i \in 1 .. Len(got) : got[i] \in had[Order(kind)[i]]
  /\ kind = "equal" => \A i \in 1 .. Len(got) : got[i] = mine[Order(kind)[i]]
  /\ kind = "copy" => /\ Len(got) >= 2 => ~Bad(got[1], got[2])
                      /\ Len(got) >= 4 => ~Bad(got[3], got[4])

ReadInv == reader # Nobody =>
  /\ reader \in [kind : Kinds, mine : Values, other : {Live} \cup Values, got : Seq(Ints)]
  /\ Len(reader.got) < 6
  /\ HadFrom(reader.other)
  /\ GotFrom(reader.kind, reader.mine, reader.got)

OutcomeInv == outcome # Nobody =>
  /\ reader = Nobody
  /\ outcome.kind = "delta" => outcome.value \in Values
  /\ outcome.kind = "copy" /\ outcome.what = "stats" => Possible(outcome.value)

StatsInv == /\ Holds(recorder) /\ kept \in Values
            /\ ReadInv /\ OutcomeInv /\ ResultsFromTheCall /\ PanicsOnlyWhenTorn

\* Nothing has been counted or read at the start.
LEMMA InitStatsInv == StatsInit => StatsInv
<1> SUFFICES ASSUME StatsInit PROVE StatsInv
  OBVIOUS
<1>1. Holds(recorder)
  BY DEF StatsInit, Zero, Holds, Fields
<1>2. kept \in Values
  BY StatsAssumption DEF StatsInit, Zero, Values, Ints
<1> QED
  BY <1>1, <1>2
  DEF StatsInit, StatsInv, ReadInv, OutcomeInv, ResultsFromTheCall, PanicsOnlyWhenTorn

\* Without a change of what a call has returned, and of what it has seen, its
\* properties stay.
LEMMA OutcomeKept ==
  ASSUME StatsInv, UNCHANGED <<outcome, had>>, outcome # Nobody => reader' = Nobody
  PROVE  OutcomeInv' /\ ResultsFromTheCall' /\ PanicsOnlyWhenTorn'
BY DEF StatsInv, OutcomeInv, ResultsFromTheCall, PanicsOnlyWhenTorn

\* A call that has not returned has no properties yet.
LEMMA NoOutcome ==
  ASSUME outcome' = Nobody
  PROVE  OutcomeInv' /\ ResultsFromTheCall' /\ PanicsOnlyWhenTorn'
BY DEF OutcomeInv, ResultsFromTheCall, PanicsOnlyWhenTorn

-----------------------------------------------------------------------------
(* Changes of the recorder *)

\* Every method leaves a recorder that can be.
LEMMA ChangeHolds ==
  ASSUME StatsInv, Change
  PROVE  \E r : Holds(r) /\ Changed(r)
<1>1. /\ recorder \in [Fields -> Nat]
      /\ \A op \in Counted : recorder[Failure(op)] <= recorder[Total(op)]
  BY DEF StatsInv, Holds
<1>2. \A op \in Counted : Total(op) \in Fields /\ Failure(op) \in Fields
  BY DEF Fields
<1>3. BytesRead \in Fields /\ BytesWritten \in Fields
  BY DEF Fields
<1>4. \A o, w \in Counted : /\ Total(o) # Failure(w)
                            /\ Total(o) = Total(w) => o = w
                            /\ Failure(o) = Failure(w) => o = w
  BY SixFields DEF Counted
<1>5. \A o \in Counted : /\ Total(o) \notin {BytesRead, BytesWritten}
                         /\ Failure(o) \notin {BytesRead, BytesWritten}
  BY SixFields
<1>6. ASSUME NEW op \in Counted, NEW bytes \in {0, 1}, NEW failed \in BOOLEAN,
             Record(op, bytes, failed)
      PROVE  \E r : Holds(r) /\ Changed(r)
  <2> PICK one \in {0, 1} : one = IF failed THEN 1 ELSE 0
    OBVIOUS
  <2> PICK got \in Nat : got = IF op = OpRead THEN bytes ELSE 0
    OBVIOUS
  <2> PICK put \in Nat : put = IF op = OpWrite THEN bytes ELSE 0
    OBVIOUS
  <2>1. PICK r : /\ Changed(r)
                 /\ r = [recorder EXCEPT ![Total(op)] = @ + 1, ![Failure(op)] = @ + one,
                                         ![BytesRead] = @ + got, ![BytesWritten] = @ + put]
    BY <1>6 DEF Record
  <2>2. r[Total(op)] = recorder[Total(op)] + 1 /\ r[Failure(op)] = recorder[Failure(op)] + one
    BY <1>1, <1>2, <1>4, <1>5, <2>1
  <2>3. r[BytesRead] = recorder[BytesRead] + got /\ r[BytesWritten] = recorder[BytesWritten] + put
    BY <1>1, <1>3, <1>5, <2>1, SixFields
  <2>4. \A f \in Fields \ {Total(op), Failure(op), BytesRead, BytesWritten} : r[f] = recorder[f]
    BY <1>1, <2>1
  <2>5. \A f \in Fields : r[f] \in Nat
    BY <1>1, <1>2, <1>3, <2>2, <2>3, <2>4
  <2>6. r = [f \in Fields |-> r[f]]
    BY <1>1, <2>1
  <2>7. r \in [Fields -> Nat]
    BY <2>5, <2>6
  <2>8. \A o \in Counted \ {op} : r[Total(o)] = recorder[Total(o)] /\ r[Failure(o)] = recorder[Failure(o)]
    BY <1>1, <1>2, <1>4, <1>5, <2>1
  <2>9. r[Failure(op)] <= r[Total(op)]
    BY <1>1, <1>2, <2>2
  <2>10. \A o \in Counted : r[Failure(o)] <= r[Total(o)]
    BY <1>1, <2>8, <2>9
  <2> QED
    BY <2>1, <2>7, <2>10 DEF Holds
<1>7. ASSUME NEW op \in Counted, NEW total \in {-1, 0, MaxInt}, NEW failures \in {-1, 0, MaxInt},
             Set(op, total, failures)
      PROVE  \E r : Holds(r) /\ Changed(r)
  <2>1. PICK r : /\ Changed(r)
                 /\ r = [recorder EXCEPT ![Total(op)] = total, ![Failure(op)] = failures]
    BY <1>7 DEF Set
  <2>2. total \in Nat /\ failures \in Nat /\ failures <= total
    BY <1>7, StatsAssumption DEF Set, SetRefuses
  <2>3. r \in [Fields -> Nat]
    BY <1>1, <2>1, <2>2
  <2>4. r[Total(op)] = total /\ r[Failure(op)] = failures
    BY <1>1, <1>2, <1>4, <2>1
  <2>5. \A o \in Counted \ {op} : r[Total(o)] = recorder[Total(o)] /\ r[Failure(o)] = recorder[Failure(o)]
    BY <1>1, <1>2, <1>4, <2>1
  <2>6. \A o \in Counted : r[Failure(o)] <= r[Total(o)]
    BY <1>1, <2>2, <2>4, <2>5
  <2> QED
    BY <2>1, <2>3, <2>6 DEF Holds
<1>8. ASSUME NEW read \in {-1, MaxInt}, NEW wrote \in {-1, MaxInt}, SetBytes(read, wrote)
      PROVE  \E r : Holds(r) /\ Changed(r)
  <2>1. PICK r : /\ Changed(r)
                 /\ r = [recorder EXCEPT ![BytesRead] = read, ![BytesWritten] = wrote]
    BY <1>8 DEF SetBytes
  <2>2. read \in Nat /\ wrote \in Nat
    BY <1>8, StatsAssumption DEF SetBytes
  <2>3. r \in [Fields -> Nat]
    BY <1>1, <2>1, <2>2
  <2>4. \A o \in Counted : r[Total(o)] = recorder[Total(o)] /\ r[Failure(o)] = recorder[Failure(o)]
    BY <1>1, <1>2, <1>5, <2>1
  <2> QED
    BY <1>1, <2>1, <2>3, <2>4 DEF Holds
<1>9. ASSUME ResetStats
      PROVE  \E r : Holds(r) /\ Changed(r)
  <2>1. Holds(Zero)
    BY <1>2 DEF Zero, Holds
  <2> QED
    BY <1>9, <2>1 DEF ResetStats
<1> QED
  BY <1>6, <1>7, <1>8, <1>9 DEF Change

\* A change adds to what a call that reads the recorder may see.
LEMMA ChangeKeeps ==
  ASSUME StatsInv, NEW r, Holds(r), Changed(r)
  PROVE  StatsInv'
<1>1. recorder' = r /\ kept' = kept /\ reader' = reader /\ outcome' = outcome
  BY DEF Changed
<1>2. SnapshotOf(r) \in Values /\ Possible(SnapshotOf(r))
  BY SnapshotPossible
<1>3. ReadInv' /\ OutcomeInv' /\ ResultsFromTheCall' /\ PanicsOnlyWhenTorn'
  <2>1. CASE reader # Nobody /\ reader.other = Live
    <3>1. had' = [f \in Fields |-> had[f] \cup {SnapshotOf(r)[f]}]
      BY <2>1 DEF Changed
    <3>2. outcome' = Nobody
      BY <1>1, <2>1 DEF StatsInv, OutcomeInv
    <3>3. HadFrom(reader.other) /\ Len(reader.got) < 6
          /\ GotFrom(reader.kind, reader.mine, reader.got)
          /\ reader \in [kind : Kinds, mine : Values, other : {Live} \cup Values, got : Seq(Ints)]
      BY <2>1 DEF StatsInv, ReadInv
    <3>4. \A f \in Fields : IsFiniteSet(had'[f])
      BY <3>1, <3>3, FS_AddElement DEF HadFrom
    <3>5. \A f \in Fields : SnapshotOf(r)[f] \in Ints /\ SnapshotOf(r)[f] \in 0 .. MaxInt
      BY <1>2 DEF Values, Possible
    <3>6. had' \in [Fields -> SUBSET Ints]
      BY <3>1, <3>3, <3>5 DEF HadFrom
    <3>7. \A f \in Fields : had'[f] \subseteq 0 .. MaxInt /\ SnapshotOf(r)[f] \in had'[f]
      BY <2>1, <3>1, <3>3, <3>5 DEF HadFrom
    <3>8. \A op \in Counted : \A t \in had'[Total(op)] : \E n \in had'[Failure(op)] : n <= t
      <4> SUFFICES ASSUME NEW op \in Counted, NEW t \in had'[Total(op)]
                   PROVE  \E n \in had'[Failure(op)] : n <= t
        OBVIOUS
      <4>1. Total(op) \in Fields /\ Failure(op) \in Fields
        BY DEF Fields
      <4>2. /\ had'[Total(op)] = had[Total(op)] \cup {SnapshotOf(r)[Total(op)]}
            /\ had'[Failure(op)] = had[Failure(op)] \cup {SnapshotOf(r)[Failure(op)]}
        BY <3>1, <4>1
      <4>3. CASE t \in had[Total(op)]
        BY <2>1, <3>3, <4>2, <4>3 DEF HadFrom
      <4>4. CASE t = SnapshotOf(r)[Total(op)]
        BY <1>2, <4>2, <4>4 DEF Possible
      <4> QED
        BY <4>2, <4>3, <4>4
    <3>9. HadFrom(reader.other)'
      BY <1>1, <2>1, <3>4, <3>6, <3>7, <3>8 DEF HadFrom, SnapshotOf
    <3>10. GotFrom(reader.kind, reader.mine, reader.got)'
      <4>1. \A f \in Fields : had[f] \subseteq had'[f]
        BY <3>1
      <4>2. \A i \in 1 .. Len(reader.got) : Order(reader.kind)[i] \in Fields
        BY <3>3, EachFieldOnce
      <4> QED
        BY <1>1, <3>3, <4>1, <4>2 DEF GotFrom
    <3> QED
      BY <1>1, <3>2, <3>3, <3>9, <3>10, NoOutcome DEF ReadInv
  <2>2. CASE ~(reader # Nobody /\ reader.other = Live)
    <3>1. had' = had
      BY <2>2 DEF Changed
    <3>2. reader # Nobody => HadFrom(reader.other)' /\ GotFrom(reader.kind, reader.mine, reader.got)'
      BY <1>1, <2>2, <3>1 DEF StatsInv, ReadInv, HadFrom, GotFrom
    <3>3. ReadInv'
      BY <1>1, <3>2 DEF StatsInv, ReadInv
    <3>4. outcome # Nobody => reader' = Nobody
      BY <1>1 DEF StatsInv, OutcomeInv
    <3> QED
      BY <1>1, <3>1, <3>3, <3>4, OutcomeKept
  <2> QED
    BY <2>1, <2>2
<1> QED
  BY <1>1, <1>3 DEF StatsInv

-----------------------------------------------------------------------------
(* Readings *)

\* What a Stats shows is made of ints.
LEMMA ShownValues ==
  ASSUME StatsInv, NEW stats \in {Live, kept}
  PROVE  Shown(stats) \in Values
BY SnapshotPossible DEF StatsInv, Shown

\* A snapshot can be kept.
LEMMA SnapshotKeeps ==
  ASSUME StatsInv, Snapshot
  PROVE  StatsInv'
<1>1. UNCHANGED <<recorder, reader, outcome, had>> /\ kept' = SnapshotOf(recorder)
  BY DEF Snapshot
<1>2. SnapshotOf(recorder) \in Values
  BY SnapshotPossible DEF StatsInv
<1>3. ReadInv'
  BY <1>1 DEF StatsInv, ReadInv, HadFrom, GotFrom
<1>4. outcome # Nobody => reader' = Nobody
  BY <1>1 DEF StatsInv, OutcomeInv
<1> QED
  BY <1>1, <1>2, <1>3, <1>4, OutcomeKept DEF StatsInv

\* A call begins with the values of that moment.
LEMMA BeginKeeps ==
  ASSUME StatsInv, NEW kind \in Kinds, NEW mine \in {Live, kept}, NEW other \in {Live, kept},
         Begin(kind, mine, other)
  PROVE  StatsInv'
<1>1. /\ reader' = [kind |-> kind, mine |-> Shown(mine), other |-> other, got |-> <<>>]
      /\ outcome' = Nobody /\ had' = [f \in Fields |-> {Shown(other)[f]}]
      /\ UNCHANGED <<recorder, kept>>
  BY DEF Begin
<1>2. /\ Shown(mine) \in Values /\ Shown(other) \in Values /\ kept \in Values
      /\ other \in {Live} \cup Values
  BY ShownValues DEF StatsInv
<1>3. reader' \in [kind : Kinds, mine : Values, other : {Live} \cup Values, got : Seq(Ints)]
  BY <1>1, <1>2
<1>4. /\ had' \in [Fields -> SUBSET Ints]
      /\ \A f \in Fields : had'[f] = {Shown(other)[f]}
  BY <1>1, <1>2 DEF Values
<1>5. \A f \in Fields : IsFiniteSet(had'[f])
  BY <1>4, FS_Singleton
<1>6. ASSUME other # Live
      PROVE  other \in Values /\ \A f \in Fields : had'[f] = {other[f]}
  BY <1>2, <1>4, <1>6 DEF Shown
<1>7. ASSUME other = Live
      PROVE  /\ \A f \in Fields : /\ had'[f] \subseteq 0 .. MaxInt
                                  /\ SnapshotOf(recorder)[f] \in had'[f]
             /\ \A op \in Counted : \A t \in had'[Total(op)] : \E n \in had'[Failure(op)] : n <= t
  <2>1. Possible(SnapshotOf(recorder))
    BY SnapshotPossible DEF StatsInv
  <2>2. \A f \in Fields : had'[f] = {SnapshotOf(recorder)[f]}
    BY <1>4, <1>7 DEF Shown
  <2>3. \A op \in Counted : Total(op) \in Fields /\ Failure(op) \in Fields
    BY DEF Fields
  <2> QED
    BY <2>1, <2>2, <2>3 DEF Possible
<1>8. HadFrom(other)'
  BY <1>1, <1>4, <1>5, <1>6, <1>7 DEF HadFrom, SnapshotOf
<1>9. reader'.other = other /\ reader'.got = <<>> /\ Len(<<>>) = 0
  BY <1>1, EmptySeq
<1>10. GotFrom(reader.kind, reader.mine, reader.got)'
  BY <1>9 DEF GotFrom
<1>11. ReadInv'
  BY <1>3, <1>8, <1>9, <1>10 DEF ReadInv
<1> QED
  BY <1>1, <1>11, NoOutcome DEF StatsInv

\* The caller keeps what Delta has returned.
LEMMA KeepDeltaKeeps ==
  ASSUME StatsInv, KeepDelta
  PROVE  StatsInv'
<1>1. /\ outcome' = Nobody /\ kept' = outcome.value /\ reader = Nobody
      /\ UNCHANGED <<recorder, reader, had>>
  BY DEF KeepDelta
<1>2. kept' \in Values
  BY <1>1 DEF KeepDelta, StatsInv, OutcomeInv
<1> QED
  BY <1>1, <1>2, NoOutcome DEF StatsInv, ReadInv

-----------------------------------------------------------------------------
(* The steps of a call that reads field by field *)

\* One more field has been read.
Extended(got) ==
  /\ got \in Seq(Ints)
  /\ Len(got) = Len(reader.got) + 1 /\ Len(got) \in 1 .. 6
  /\ \A i \in 1 .. Len(reader.got) : got[i] = reader.got[i]
  /\ \A i \in 1 .. Len(got) : got[i] \in had[Order(reader.kind)[i]]

\* What is read next has been there during the call.
LEMMA ReadExtends ==
  ASSUME StatsInv, reader # Nobody, NEW got,
         got = Append(reader.got, Shown(reader.other)[Order(reader.kind)[Len(reader.got) + 1]])
  PROVE  Extended(got)
<1> PICK n \in Nat : n = Len(reader.got)
  BY LenProperties DEF StatsInv, ReadInv
<1> PICK v : v = Shown(reader.other)[Order(reader.kind)[n + 1]]
  OBVIOUS
<1>1. /\ reader.kind \in Kinds /\ reader.got \in Seq(Ints) /\ n < 6
      /\ HadFrom(reader.other) /\ GotFrom(reader.kind, reader.mine, reader.got)
  BY DEF StatsInv, ReadInv
<1>2. Order(reader.kind)[n + 1] \in Fields
  BY <1>1, EachFieldOnce
<1>3. \A f \in Fields : Shown(reader.other)[f] \in had[f]
  BY <1>1 DEF HadFrom, Shown
<1>4. v \in had[Order(reader.kind)[n + 1]] /\ v \in Ints
  BY <1>1, <1>2, <1>3 DEF HadFrom
<1>5. /\ got = Append(reader.got, v) /\ got \in Seq(Ints) /\ Len(got) = n + 1
      /\ \A i \in 1 .. n + 1 : got[i] = IF i <= n THEN reader.got[i] ELSE v
  BY <1>1, <1>4, AppendProperties
<1>6. \A i \in 1 .. n : got[i] \in had[Order(reader.kind)[i]]
  BY <1>1, <1>5 DEF GotFrom
<1>7. got[n + 1] \in had[Order(reader.kind)[n + 1]]
  BY <1>4, <1>5
<1>8. \A i \in 1 .. n + 1 : got[i] \in had[Order(reader.kind)[i]]
  <2> SUFFICES ASSUME NEW i \in 1 .. n + 1 PROVE got[i] \in had[Order(reader.kind)[i]]
    OBVIOUS
  <2>1. i \in 1 .. n \/ i = n + 1
    OBVIOUS
  <2> QED
    BY <1>6, <1>7, <2>1
<1> QED
  BY <1>1, <1>5, <1>8 DEF Extended

\* Two elements are more than one.
LEMMA TwoElements ==
  ASSUME NEW S, IsFiniteSet(S), NEW x \in S, NEW y \in S, x # y
  PROVE  Cardinality(S) > 1
<1>1. IsFiniteSet({x}) /\ Cardinality({x}) = 1
  BY FS_Singleton
<1>2. IsFiniteSet({x} \cup {y})
      /\ Cardinality({x} \cup {y}) = IF y \in {x} THEN Cardinality({x}) ELSE Cardinality({x}) + 1
  BY <1>1, FS_AddElement
<1>3. Cardinality({x} \cup {y}) = 2
  BY <1>1, <1>2
<1>4. {x} \cup {y} \subseteq S
  OBVIOUS
<1>5. Cardinality({x} \cup {y}) <= Cardinality(S) /\ Cardinality(S) \in Nat
  BY <1>4, FS_Subset, FS_CardinalityType
<1> QED
  BY <1>3, <1>5

\* A panic: a Delta that no recorder can hold, or a recorder that has changed.
LEMMA PanicIsTorn ==
  ASSUME StatsInv, reader # Nobody, reader.kind = "copy", NEW got, Extended(got),
         SetPanics(got) \/ SetBytesPanics(got)
  PROVE  IF reader.other = Live
           THEN \E op \in Counted : /\ Cardinality(had[Failure(op)]) > 1
                                    /\ \E t \in had[Total(op)], n \in had[Failure(op)] : n > t
           ELSE ~Possible(reader.other)
<1>1. HadFrom(reader.other) /\ MaxInt \in Nat
  BY StatsAssumption DEF StatsInv, ReadInv
<1>2. Len(got) \in 1 .. 6 /\ \A i \in 1 .. Len(got) : got[i] \in had[Order("copy")[i]]
  BY DEF Extended
<1>3. \A op \in Counted : Total(op) \in Fields /\ Failure(op) \in Fields
  BY DEF Fields
<1>4. BytesRead \in Fields /\ BytesWritten \in Fields
  BY DEF Fields
<1>5. CASE SetPanics(got)
  <2>1. PICK k \in {1, 3} : Len(got) = k + 1
    BY <1>2, <1>5 DEF SetPanics
  <2>2. PICK op \in Counted : Order("copy")[k] = Total(op) /\ Order("copy")[k + 1] = Failure(op)
    BY Orders DEF Counted
  <2>3. got[k] \in had[Total(op)] /\ got[k + 1] \in had[Failure(op)]
    BY <1>2, <2>1, <2>2
  <2>4. SetRefuses(got[k], got[k + 1])
    BY <1>5, <2>1 DEF SetPanics
  <2>5. got[k + 1] < 0 \/ got[k + 1] > got[k]
    BY <2>4 DEF SetRefuses
  <2>6. CASE reader.other = Live
    <3>1. got[k] \in 0 .. MaxInt /\ got[k + 1] \in 0 .. MaxInt
      BY <1>1, <1>3, <2>3, <2>6 DEF HadFrom
    <3>2. got[k + 1] > got[k]
      BY <2>5, <3>1
    <3>3. PICK n \in had[Failure(op)] : n <= got[k]
      BY <1>1, <2>3, <2>6 DEF HadFrom
    <3>4. n \in 0 .. MaxInt
      BY <1>1, <1>3, <2>6, <3>3 DEF HadFrom
    <3>5. n # got[k + 1]
      BY <3>1, <3>2, <3>3, <3>4
    <3>6. Cardinality(had[Failure(op)]) > 1
      BY <1>1, <1>3, <2>3, <3>3, <3>5, TwoElements DEF HadFrom
    <3> QED
      BY <2>3, <2>6, <3>2, <3>6
  <2>7. CASE reader.other # Live
    <3>1. got[k] = reader.other[Total(op)] /\ got[k + 1] = reader.other[Failure(op)]
      BY <1>1, <1>3, <2>3, <2>7 DEF HadFrom
    <3>2. ~Possible(reader.other)
      <4> SUFFICES ASSUME Possible(reader.other) PROVE FALSE
        OBVIOUS
      <4>1. /\ reader.other[Total(op)] \in 0 .. MaxInt /\ reader.other[Failure(op)] \in 0 .. MaxInt
            /\ reader.other[Failure(op)] <= reader.other[Total(op)]
        BY <1>3 DEF Possible
      <4> QED
        BY <1>1, <2>5, <3>1, <4>1
    <3> QED
      BY <2>7, <3>2
  <2> QED
    BY <2>6, <2>7
<1>6. CASE SetBytesPanics(got)
  <2>1. Len(got) = 6 /\ (got[5] < 0 \/ got[6] < 0)
    BY <1>6 DEF SetBytesPanics
  <2>2. got[5] \in had[BytesRead] /\ got[6] \in had[BytesWritten]
    BY <1>2, <2>1, Orders
  <2>3. reader.other # Live
    <3> SUFFICES ASSUME reader.other = Live PROVE FALSE
      OBVIOUS
    <3>1. got[5] \in 0 .. MaxInt /\ got[6] \in 0 .. MaxInt
      BY <1>1, <1>4, <2>2 DEF HadFrom
    <3> QED
      BY <1>1, <2>1, <3>1
  <2>4. got[5] = reader.other[BytesRead] /\ got[6] = reader.other[BytesWritten]
    BY <1>1, <1>4, <2>2, <2>3 DEF HadFrom
  <2>5. ~Possible(reader.other)
    <3> SUFFICES ASSUME Possible(reader.other) PROVE FALSE
      OBVIOUS
    <3>1. reader.other[BytesRead] \in 0 .. MaxInt /\ reader.other[BytesWritten] \in 0 .. MaxInt
      BY <1>4 DEF Possible
    <3> QED
      BY <1>1, <2>1, <2>4, <3>1
  <2> QED
    BY <2>3, <2>5
<1> QED
  BY <1>5, <1>6

\* A copy that is made holds what a recorder can, and what was there.
LEMMA CopyRight ==
  ASSUME StatsInv, reader # Nobody, reader.kind = "copy", NEW got, Extended(got), Len(got) = 6,
         ~SetPanics(got), ~SetBytesPanics(got), NEW values, values = Read(got, "copy")
  PROVE  /\ Possible(Copy(values))
         /\ \A f \in Fields :
              \/ Copy(values)[f] \in had[f]
              \/ /\ Copy(values)[f] = 0 /\ reader.other # Live
                 /\ \E op \in Counted : f \in {Total(op), Failure(op)} /\ LeftOut(reader.other, op)
<1>1. HadFrom(reader.other) /\ MaxInt \in Nat
  BY StatsAssumption DEF StatsInv, ReadInv
<1>2. \A op \in Counted : Total(op) \in Fields /\ Failure(op) \in Fields
  BY DEF Fields
<1>3. BytesRead \in Fields /\ BytesWritten \in Fields
  BY DEF Fields
<1>4. \A i \in 1 .. 6 : got[i] \in had[Order("copy")[i]] /\ values[Order("copy")[i]] = got[i]
  BY ReadAtField DEF Extended, Kinds
<1>5. \A f \in Fields : values[f] \in had[f] /\ values[f] \in Ints
  <2> SUFFICES ASSUME NEW f \in Fields PROVE values[f] \in had[f] /\ values[f] \in Ints
    OBVIOUS
  <2>1. "copy" \in Kinds
    BY DEF Kinds
  <2>2. PICK i \in 1 .. 6 : Order("copy")[i] = f
    BY <2>1, EachFieldOnce
  <2>3. values[f] \in had[f]
    BY <1>4, <2>2
  <2> QED
    BY <1>1, <2>3 DEF HadFrom
<1>6. \A op \in Counted : ~Bad(values[Total(op)], values[Failure(op)])
  <2>1. reader.got \in Seq(Ints) /\ GotFrom(reader.kind, reader.mine, reader.got)
    BY DEF StatsInv, ReadInv
  <2>2. Len(reader.got) = 5
    <3>1. Len(reader.got) \in Nat /\ Len(got) = Len(reader.got) + 1 /\ Len(got) = 6
      BY <2>1, LenProperties DEF Extended
    <3>2. \A n, m \in Nat : m = n + 1 /\ m = 6 => n = 5
      OBVIOUS
    <3> QED
      BY <3>1, <3>2, Zenon
  <2>3. got[1] = reader.got[1] /\ got[2] = reader.got[2] /\ got[3] = reader.got[3] /\ got[4] = reader.got[4]
    BY <2>2 DEF Extended
  <2>4. ~Bad(got[1], got[2]) /\ ~Bad(got[3], got[4])
    BY <2>1, <2>2, <2>3 DEF GotFrom
  <2>5. /\ values[Total(OpRead)] = got[1] /\ values[Failure(OpRead)] = got[2]
        /\ values[Total(OpWrite)] = got[3] /\ values[Failure(OpWrite)] = got[4]
    BY <1>4, Orders
  <2> QED
    BY <2>4, <2>5 DEF Counted
<1>7. values[BytesRead] >= 0 /\ values[BytesWritten] >= 0
  <2>1. values[BytesRead] = got[5] /\ values[BytesWritten] = got[6]
    BY <1>4, Orders
  <2>2. got[5] \in Ints /\ got[6] \in Ints
    BY <1>3, <1>5, <2>1
  <2> QED
    BY <1>1, <2>1, <2>2 DEF SetBytesPanics, Ints
<1>8. \A op \in Counted : /\ Copy(values)[Total(op)] =
                               IF LeftOut(values, op) THEN 0 ELSE values[Total(op)]
                          /\ Copy(values)[Failure(op)] =
                               IF LeftOut(values, op) THEN 0 ELSE values[Failure(op)]
  <2>1. \A o, w \in Counted : /\ Total(o) # Failure(w)
                              /\ Total(o) = Total(w) => o = w
                              /\ Failure(o) = Failure(w) => o = w
    BY SixFields DEF Counted
  <2> QED
    BY <1>2, <2>1 DEF Copy, LeftOut
<1>9. Copy(values)[BytesRead] = values[BytesRead] /\ Copy(values)[BytesWritten] = values[BytesWritten]
  BY <1>3, SixFields DEF Copy
<1>10. \A op \in Counted : /\ Copy(values)[Total(op)] \in 0 .. MaxInt
                           /\ Copy(values)[Failure(op)] \in 0 .. MaxInt
                           /\ Copy(values)[Failure(op)] <= Copy(values)[Total(op)]
  <2> SUFFICES ASSUME NEW op \in Counted
               PROVE  /\ Copy(values)[Total(op)] \in 0 .. MaxInt
                      /\ Copy(values)[Failure(op)] \in 0 .. MaxInt
                      /\ Copy(values)[Failure(op)] <= Copy(values)[Total(op)]
    OBVIOUS
  <2>1. values[Total(op)] \in Ints /\ values[Failure(op)] \in Ints
    BY <1>2, <1>5
  <2>2. CASE LeftOut(values, op)
    BY <1>1, <1>8, <2>2
  <2>3. CASE ~LeftOut(values, op)
    <3>1. values[Total(op)] > 0 \/ values[Failure(op)] > 0
      BY <1>1, <2>1, <2>3 DEF LeftOut, Ints
    <3>2. 0 <= values[Failure(op)] /\ values[Failure(op)] <= values[Total(op)]
      BY <1>1, <1>6, <2>1, <3>1 DEF Bad, SetRefuses, Ints
    <3> QED
      BY <1>1, <1>8, <2>1, <2>3, <3>2 DEF Ints
  <2> QED
    BY <2>2, <2>3
<1>11. Fields = {Total(op) : op \in Counted} \cup {Failure(op) : op \in Counted} \cup {BytesRead, BytesWritten}
  BY DEF Fields
<1>12. Possible(Copy(values))
  <2>1. \A f \in {BytesRead, BytesWritten} : Copy(values)[f] \in 0 .. MaxInt
    BY <1>1, <1>3, <1>5, <1>7, <1>9 DEF Ints
  <2>2. \A f \in Fields : Copy(values)[f] \in 0 .. MaxInt
    BY <1>10, <1>11, <2>1
  <2>3. Copy(values) = [f \in Fields |-> Copy(values)[f]]
    BY DEF Copy
  <2>4. Copy(values) \in [Fields -> 0 .. MaxInt]
    BY <2>2, <2>3
  <2> QED
    BY <1>10, <2>4 DEF Possible
<1>13. ASSUME NEW f \in Fields, Copy(values)[f] \notin had[f]
       PROVE  /\ Copy(values)[f] = 0 /\ reader.other # Live
              /\ \E op \in Counted : f \in {Total(op), Failure(op)} /\ LeftOut(reader.other, op)
  <2>1. Copy(values)[f] # values[f]
    BY <1>5, <1>13
  <2>2. PICK op \in Counted : f \in {Total(op), Failure(op)} /\ LeftOut(values, op)
    BY <1>8, <1>9, <1>11, <2>1
  <2>3. Copy(values)[f] = 0 /\ values[f] # 0
    BY <1>8, <2>1, <2>2
  <2>4. values[f] \in Ints /\ values[f] <= 0
    BY <1>5, <2>2 DEF LeftOut
  <2>5. reader.other # Live
    <3> SUFFICES ASSUME reader.other = Live PROVE FALSE
      OBVIOUS
    <3>1. values[f] \in 0 .. MaxInt
      BY <1>1, <1>5 DEF HadFrom
    <3> QED
      BY <1>1, <2>3, <2>4, <3>1
  <2>6. LeftOut(reader.other, op)
    BY <1>1, <1>2, <1>5, <2>2, <2>5 DEF HadFrom, LeftOut
  <2> QED
    BY <2>2, <2>3, <2>5, <2>6
<1> QED
  BY <1>12, <1>13

\* Delta gives ints, from values that were there.
LEMMA DeltaRight ==
  ASSUME StatsInv, reader # Nobody, NEW got, Extended(got), Len(got) = 6,
         NEW values, values = Read(got, reader.kind)
  PROVE  /\ Difference(reader.mine, values) \in Values
         /\ \A f \in Fields : \E v \in had[f] :
              Difference(reader.mine, values)[f] = Wrap(reader.mine[f] - v)
<1>1. reader.kind \in Kinds /\ reader.mine \in Values /\ HadFrom(reader.other) /\ MaxInt \in Nat
  BY StatsAssumption DEF StatsInv, ReadInv
<1>2. \A f \in Fields : values[f] \in had[f] /\ values[f] \in Ints
  <2> SUFFICES ASSUME NEW f \in Fields PROVE values[f] \in had[f] /\ values[f] \in Ints
    OBVIOUS
  <2>1. PICK i \in 1 .. 6 : Order(reader.kind)[i] = f
    BY <1>1, EachFieldOnce
  <2>2. Read(got, reader.kind)[Order(reader.kind)[i]] = got[i]
    BY <1>1, ReadAtField
  <2>3. got[i] \in had[Order(reader.kind)[i]]
    BY DEF Extended
  <2>4. values[f] \in had[f]
    BY <2>1, <2>2, <2>3
  <2> QED
    BY <1>1, <2>4 DEF HadFrom
<1>3. \A f \in Fields : reader.mine[f] - values[f] \in Int
  <2> SUFFICES ASSUME NEW f \in Fields PROVE reader.mine[f] - values[f] \in Int
    OBVIOUS
  <2>1. reader.mine[f] \in Ints /\ values[f] \in Ints
    BY <1>1, <1>2 DEF Values
  <2> QED
    BY <1>1, <2>1 DEF Ints
<1>4. \A f \in Fields : Difference(reader.mine, values)[f] = Wrap(reader.mine[f] - values[f])
  BY DEF Difference
<1>5. \A f \in Fields : Difference(reader.mine, values)[f] \in Ints
  BY <1>3, <1>4, WrapsToInt
<1>6. Difference(reader.mine, values) \in Values
  BY <1>5 DEF Difference, Values
<1> QED
  BY <1>2, <1>4, <1>6

Advances(got) == reader' = [reader EXCEPT !.got = got]

\* A call goes on when it has not panicked and not found a difference.
LEMMA GoesOn ==
  ASSUME StatsInv, reader # Nobody, NEW got, Extended(got), Len(got) < 6,
         reader.kind = "copy" => ~SetPanics(got), ~Differs(got),
         Advances(got), UNCHANGED <<recorder, kept, outcome, had>>
  PROVE  StatsInv'
<1>1. /\ reader \in [kind : Kinds, mine : Values, other : {Live} \cup Values, got : Seq(Ints)]
      /\ HadFrom(reader.other) /\ GotFrom(reader.kind, reader.mine, reader.got)
      /\ outcome = Nobody
  BY DEF StatsInv, ReadInv, OutcomeInv
<1> PICK n \in Nat : n = Len(reader.got) /\ Len(got) = n + 1
  BY <1>1, LenProperties DEF Extended
<1>2. /\ reader'.kind = reader.kind /\ reader'.mine = reader.mine
      /\ reader'.other = reader.other /\ reader'.got = got
      /\ reader' \in [kind : Kinds, mine : Values, other : {Live} \cup Values, got : Seq(Ints)]
  BY <1>1 DEF Extended, Advances
<1>3. \A i \in 1 .. Len(got) : i \in 1 .. n \/ i = n + 1
  OBVIOUS
<1>4. ASSUME reader.kind = "equal", NEW i \in 1 .. Len(got)
      PROVE  got[i] = reader.mine[Order(reader.kind)[i]]
  <2>1. CASE i \in 1 .. n
    BY <1>1, <1>4, <2>1 DEF GotFrom, Extended
  <2>2. CASE i = n + 1
    BY <1>4, <2>2 DEF Differs
  <2> QED
    BY <1>3, <1>4, <2>1, <2>2
<1>5. ASSUME reader.kind = "copy"
      PROVE  /\ Len(got) >= 2 => ~Bad(got[1], got[2])
             /\ Len(got) >= 4 => ~Bad(got[3], got[4])
  <2>1. \A i \in 1 .. n : got[i] = reader.got[i]
    BY DEF Extended
  <2>2. /\ n >= 2 => ~Bad(reader.got[1], reader.got[2])
        /\ n >= 4 => ~Bad(reader.got[3], reader.got[4])
    BY <1>1, <1>5 DEF GotFrom
  <2>3. ~SetPanics(got)
    BY <1>5
  <2>4. Len(got) = 2 \/ Len(got) = 4 => ~Bad(got[Len(got) - 1], got[Len(got)])
    BY <2>3 DEF SetPanics, Bad
  <2>5. got \in Seq(Ints) /\ reader.got \in Seq(Ints)
    BY <1>1 DEF Extended
  <2>6. 2 - 1 = 1 /\ 4 - 1 = 3
    OBVIOUS
  <2>7. /\ Len(got) = 2 => ~Bad(got[1], got[2])
        /\ Len(got) = 4 => ~Bad(got[3], got[4])
    BY <2>4, <2>6, Zenon
  <2>8. n >= 2 => ~Bad(got[1], got[2])
    BY <2>1, <2>2
  <2>9. n >= 4 => ~Bad(got[3], got[4])
    BY <2>1, <2>2
  <2> QED
    BY <2>5, <2>7, <2>8, <2>9
<1>6. GotFrom(reader.kind, reader.mine, got)
  BY <1>4, <1>5 DEF GotFrom, Extended
<1>7. HadFrom(reader.other)'
  BY <1>1, <1>2 DEF HadFrom, SnapshotOf
<1>8. GotFrom(reader.kind, reader.mine, reader.got)'
  BY <1>2, <1>6 DEF GotFrom
<1>9. ReadInv'
  BY <1>2, <1>7, <1>8 DEF ReadInv
<1> QED
  BY <1>1, <1>9, NoOutcome DEF StatsInv

\* A call returns when all has been read, and before at a panic or a difference.
LEMMA ReturnKeeps ==
  ASSUME StatsInv, reader # Nobody, NEW got, Extended(got), NEW what, NEW value,
         Return(what, value), UNCHANGED <<recorder, kept, had>>,
         \/ /\ what = "panic" /\ reader.kind = "copy"
            /\ SetPanics(got) \/ SetBytesPanics(got)
         \/ what = "different" /\ Differs(got)
         \/ /\ what = "equal" /\ reader.kind = "equal" /\ Len(got) = 6 /\ ~Differs(got)
         \/ /\ what = "stats" /\ reader.kind = "copy" /\ Len(got) = 6
            /\ ~SetPanics(got) /\ ~SetBytesPanics(got) /\ value = Copy(Read(got, reader.kind))
         \/ /\ what = "stats" /\ reader.kind = "delta" /\ Len(got) = 6
            /\ value = Difference(reader.mine, Read(got, reader.kind))
  PROVE  StatsInv'
<1>1. /\ reader' = Nobody
      /\ outcome' = [kind |-> reader.kind, mine |-> reader.mine, other |-> reader.other,
                     what |-> what, value |-> value]
  BY DEF Return
<1>2. /\ outcome'.kind = reader.kind /\ outcome'.mine = reader.mine
      /\ outcome'.other = reader.other /\ outcome'.what = what /\ outcome'.value = value
  BY <1>1
<1>3. reader.kind \in Kinds /\ reader.mine \in Values
  BY DEF StatsInv, ReadInv
<1>4. Holds(recorder)' /\ kept' \in Values /\ ReadInv'
  BY <1>1 DEF StatsInv, Holds, ReadInv
<1>5. CASE what = "panic" /\ reader.kind = "copy" /\ (SetPanics(got) \/ SetBytesPanics(got))
  <2>1. PanicsOnlyWhenTorn'
    BY <1>2, <1>5, PanicIsTorn DEF PanicsOnlyWhenTorn
  <2> QED
    BY <1>1, <1>2, <1>4, <1>5, <2>1 DEF StatsInv, OutcomeInv, ResultsFromTheCall
<1>6. CASE what = "different" /\ Differs(got)
  <2>1. PICK f \in Fields : got[Len(got)] \in had[f] /\ got[Len(got)] # reader.mine[f]
    <3>1. reader.kind = "equal" /\ Len(got) \in 1 .. 6
      BY <1>6 DEF Differs, Extended
    <3>2. Order("equal")[Len(got)] \in Fields
      BY <3>1, EachFieldOnce DEF Kinds
    <3>3. got[Len(got)] \in had[Order("equal")[Len(got)]]
      BY <3>1 DEF Extended
    <3> QED
      BY <1>6, <3>2, <3>3 DEF Differs
  <2>2. ResultsFromTheCall'
    BY <1>2, <1>6, <2>1 DEF ResultsFromTheCall
  <2>3. reader.kind = "equal"
    BY <1>6 DEF Differs
  <2> QED
    BY <1>1, <1>2, <1>4, <1>6, <2>2, <2>3 DEF StatsInv, OutcomeInv, PanicsOnlyWhenTorn
<1>7. CASE what = "equal" /\ reader.kind = "equal" /\ Len(got) = 6 /\ ~Differs(got)
  <2>1. \A i \in 1 .. 6 : got[i] = reader.mine[Order("equal")[i]]
    <3> SUFFICES ASSUME NEW i \in 1 .. 6 PROVE got[i] = reader.mine[Order("equal")[i]]
      OBVIOUS
    <3>1. GotFrom(reader.kind, reader.mine, reader.got) /\ reader.got \in Seq(Ints)
      BY DEF StatsInv, ReadInv
    <3>2. Len(reader.got) = 5
      <4>1. Len(reader.got) \in Nat /\ Len(got) = Len(reader.got) + 1 /\ Len(got) = 6
        BY <1>7, <3>1, LenProperties DEF Extended
      <4>2. \A n, m \in Nat : m = n + 1 /\ m = 6 => n = 5
        OBVIOUS
      <4> QED
        BY <4>1, <4>2, Zenon
    <3>3. CASE i \in 1 .. 5
      BY <1>7, <3>1, <3>2, <3>3 DEF GotFrom, Extended
    <3>4. CASE i = 6
      BY <1>7, <3>4 DEF Differs
    <3> QED
      BY <3>3, <3>4
  <2>2. \A f \in Fields : reader.mine[f] \in had[f]
    <3> SUFFICES ASSUME NEW f \in Fields PROVE reader.mine[f] \in had[f]
      OBVIOUS
    <3>1. PICK i \in 1 .. 6 : Order(reader.kind)[i] = f
      BY <1>3, EachFieldOnce
    <3>2. got[i] \in had[Order(reader.kind)[i]]
      BY <1>7 DEF Extended
    <3> QED
      BY <1>7, <2>1, <3>1, <3>2
  <2>3. ResultsFromTheCall'
    BY <1>2, <1>7, <2>2 DEF ResultsFromTheCall
  <2> QED
    BY <1>1, <1>2, <1>4, <1>7, <2>3 DEF StatsInv, OutcomeInv, PanicsOnlyWhenTorn
<1>8. CASE /\ what = "stats" /\ reader.kind = "copy" /\ Len(got) = 6
           /\ ~SetPanics(got) /\ ~SetBytesPanics(got) /\ value = Copy(Read(got, reader.kind))
  <2>1. /\ Possible(value)
        /\ \A f \in Fields :
             \/ value[f] \in had[f]
             \/ /\ value[f] = 0 /\ reader.other # Live
                /\ \E op \in Counted : f \in {Total(op), Failure(op)} /\ LeftOut(reader.other, op)
    BY <1>8, CopyRight
  <2>2. ResultsFromTheCall'
    BY <1>2, <1>8, <2>1 DEF ResultsFromTheCall
  <2>3. OutcomeInv' /\ PanicsOnlyWhenTorn'
    BY <1>1, <1>2, <1>8, <2>1 DEF OutcomeInv, PanicsOnlyWhenTorn
  <2> QED
    BY <1>4, <2>2, <2>3 DEF StatsInv
<1>9. CASE /\ what = "stats" /\ reader.kind = "delta" /\ Len(got) = 6
           /\ value = Difference(reader.mine, Read(got, reader.kind))
  <2>1. /\ value \in Values
        /\ \A f \in Fields : \E v \in had[f] : value[f] = Wrap(reader.mine[f] - v)
    BY <1>9, DeltaRight
  <2>2. ResultsFromTheCall'
    BY <1>2, <1>9, <2>1 DEF ResultsFromTheCall
  <2>3. OutcomeInv' /\ PanicsOnlyWhenTorn'
    BY <1>1, <1>2, <1>9, <2>1 DEF OutcomeInv, PanicsOnlyWhenTorn
  <2> QED
    BY <1>4, <2>2, <2>3 DEF StatsInv
<1> QED
  BY <1>5, <1>6, <1>7, <1>8, <1>9

\* A field is read.
LEMMA ReadFieldKeeps ==
  ASSUME StatsInv, ReadField
  PROVE  StatsInv'
<1> PICK got : got = Append(reader.got, Shown(reader.other)[Order(reader.kind)[Len(reader.got) + 1]])
  OBVIOUS
<1>1. /\ reader # Nobody
      /\ IF reader.kind = "copy" /\ (SetPanics(got) \/ SetBytesPanics(got)) THEN Return("panic", got)
         ELSE IF Differs(got) THEN Return("different", got)
         ELSE IF Len(got) < Len(Order(reader.kind))
           THEN reader' = [reader EXCEPT !.got = got] /\ UNCHANGED outcome
         ELSE Return(IF reader.kind = "equal" THEN "equal" ELSE "stats",
                     IF reader.kind = "copy" THEN Copy(Read(got, reader.kind))
                     ELSE Difference(reader.mine, Read(got, reader.kind)))
      /\ UNCHANGED <<recorder, kept, had>>
  BY DEF ReadField
<1>2. Extended(got)
  BY <1>1, ReadExtends
<1>3. reader.kind \in Kinds /\ Len(Order(reader.kind)) = 6 /\ Len(got) \in 1 .. 6
  BY <1>1, <1>2, EachFieldOnce DEF StatsInv, ReadInv, Extended
<1>4. CASE reader.kind = "copy" /\ (SetPanics(got) \/ SetBytesPanics(got))
  BY <1>1, <1>2, <1>4, ReturnKeeps
<1>5. CASE ~(reader.kind = "copy" /\ (SetPanics(got) \/ SetBytesPanics(got))) /\ Differs(got)
  BY <1>1, <1>2, <1>5, ReturnKeeps
<1>6. CASE /\ ~(reader.kind = "copy" /\ (SetPanics(got) \/ SetBytesPanics(got)))
           /\ ~Differs(got) /\ Len(got) < 6
  BY <1>1, <1>2, <1>3, <1>6, GoesOn DEF Advances
<1>7. CASE /\ ~(reader.kind = "copy" /\ (SetPanics(got) \/ SetBytesPanics(got)))
           /\ ~Differs(got) /\ Len(got) = 6
  <2>1. CASE reader.kind = "equal"
    <3>1. Return("equal", Difference(reader.mine, Read(got, reader.kind)))
      BY <1>1, <1>3, <1>7, <2>1
    <3> QED
      BY <1>1, <1>2, <1>7, <2>1, <3>1, ReturnKeeps
  <2>2. CASE reader.kind = "copy"
    <3>1. Return("stats", Copy(Read(got, reader.kind)))
      BY <1>1, <1>3, <1>7, <2>2
    <3> QED
      BY <1>1, <1>2, <1>7, <2>2, <3>1, ReturnKeeps
  <2>3. CASE reader.kind = "delta"
    <3>1. Return("stats", Difference(reader.mine, Read(got, reader.kind)))
      BY <1>1, <1>3, <1>7, <2>3
    <3> QED
      BY <1>1, <1>2, <1>7, <2>3, <3>1, ReturnKeeps
  <2> QED
    BY <1>3, <2>1, <2>2, <2>3 DEF Kinds
<1> QED
  BY <1>3, <1>4, <1>5, <1>6, <1>7

\* Every step keeps the invariant.
LEMMA NextStatsInv == StatsInv /\ [StatsNext]_statsVars => StatsInv'
<1> SUFFICES ASSUME StatsInv, [StatsNext]_statsVars PROVE StatsInv'
  OBVIOUS
<1>1. CASE UNCHANGED statsVars
  <2>1. UNCHANGED <<recorder, kept, reader, outcome, had>>
    BY <1>1 DEF statsVars
  <2>2. ReadInv'
    BY <2>1 DEF StatsInv, ReadInv, HadFrom, GotFrom, SnapshotOf
  <2>3. outcome # Nobody => reader' = Nobody
    BY <2>1 DEF StatsInv, OutcomeInv
  <2> QED
    BY <2>1, <2>2, <2>3, OutcomeKept DEF StatsInv, Holds
<1>2. CASE Change
  BY <1>2, ChangeHolds, ChangeKeeps
<1>3. CASE Snapshot
  BY <1>3, SnapshotKeeps
<1>4. CASE NewStatsRecorder \/ Delta \/ Equal
  <2>1. PICK kind \in Kinds, mine \in {Live, kept}, other \in {Live, kept} :
          Begin(kind, mine, other)
    BY <1>4 DEF NewStatsRecorder, Delta, Equal, Kinds
  <2> QED
    BY <2>1, BeginKeeps
<1>5. CASE ReadField
  BY <1>5, ReadFieldKeeps
<1>6. CASE KeepDelta
  BY <1>6, KeepDeltaKeeps
<1> QED
  BY <1>1, <1>2, <1>3, <1>4, <1>5, <1>6 DEF StatsNext

\* The invariant gives the types.
LEMMA InvGivesTypes == StatsInv => StatsTypeOK
<1> SUFFICES ASSUME StatsInv PROVE StatsTypeOK
  OBVIOUS
<1>1. (\A f \in Fields : recorder[f] >= 0) /\ \A op \in Counted : recorder[Failure(op)] <= recorder[Total(op)]
  BY DEF StatsInv, Holds
<1>2. Possible(SnapshotOf(recorder))
  BY SnapshotPossible DEF StatsInv
<1>3. kept \in [Fields -> -(MaxInt + 1) .. MaxInt]
  BY DEF StatsInv, Values, Ints
<1>4. reader = Nobody \/ Len(reader.got) < Cardinality(Fields)
  BY CountFields DEF StatsInv, ReadInv
<1>5. outcome # Nobody /\ outcome.kind = "copy" /\ outcome.what = "stats" => Possible(outcome.value)
  BY DEF StatsInv, OutcomeInv
<1> QED
  BY <1>1, <1>2, <1>3, <1>4, <1>5 DEF StatsTypeOK

\* Failures never exceed totals, in the recorder, in a snapshot whose counters are
\* clamped to an int of any size, and in a copy made while the recorder changes.
THEOREM FailuresWithinTotals == StatsSpec => []StatsTypeOK
BY InitStatsInv, NextStatsInv, InvGivesTypes, PTL DEF StatsSpec

\* Whatever NewStatsRecorder, Delta and Equal return comes from values that the
\* fields had during the call, for any number of changes meanwhile.
THEOREM ReadingsAreOfTheCall == StatsSpec => []ResultsFromTheCall
<1>1. StatsInv => ResultsFromTheCall
  BY DEF StatsInv
<1> QED
  BY <1>1, InitStatsInv, NextStatsInv, PTL DEF StatsSpec

\* NewStatsRecorder panics only on a Delta that no recorder can hold, or on a
\* recorder whose failures have changed while it was read.
THEOREM PanicsAreTorn == StatsSpec => []PanicsOnlyWhenTorn
<1>1. StatsInv => PanicsOnlyWhenTorn
  BY DEF StatsInv
<1> QED
  BY <1>1, InitStatsInv, NextStatsInv, PTL DEF StatsSpec
=============================================================================
