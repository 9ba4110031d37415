--------------------------- MODULE MockFileProofs ---------------------------
(***************************************************************************)
(* Proofs about MockFile, for any threads, handles, calls and bounds.      *)
(***************************************************************************)
EXTENDS MockFile, SequenceTheorems, TLAPS

\* Where a thread has no token.
Outside == {"idle", "acquire"}

\* The token of a handle is with a thread just when that thread is in a call on
\* the handle, past the receive from its channel; said of one thread and one
\* handle, and with the types that the steps need.
TokenInv ==
  /\ pc \in [Threads -> Labels]
  /\ on \in [Threads -> Handles]
  /\ ticket \in [Handles -> Threads \cup {NoThread}]
  /\ \A t \in Threads, h \in Handles :
       on[t] = h /\ pc[t] \notin Outside <=> ticket[h] = t

\* What the invariant is for.
LEMMA TokenInvTicket == TokenInv => TicketOfCaller
  BY DEF TokenInv, TicketOfCaller, Outside

LEMMA InitTokenInv == Init => TokenInv
<1> SUFFICES ASSUME Init PROVE TokenInv
  OBVIOUS
<1>1. (CHOOSE h \in Handles : TRUE) \in Handles
  BY FileAssumption
<1> QED
  BY <1>1, FileAssumption DEF Init, TokenInv, Labels, Outside

-----------------------------------------------------------------------------
(* Three kinds of steps concern the token: those inside of a call keep it, *)
(* Acquire takes it and Release gives it back.                             *)

LEMMA StepInside ==
  ASSUME TokenInv, NEW t \in Threads, NEW l \in Labels, pc[t] \notin Outside,
         l \notin Outside, Goto(t, l), UNCHANGED <<on, ticket>>
  PROVE  TokenInv'
  BY DEF TokenInv, Goto

LEMMA ReturnInside ==
  ASSUME TokenInv, NEW t \in Threads, NEW a, pc[t] \notin Outside,
         Return(t, a), UNCHANGED <<on, ticket>>
  PROVE  TokenInv'
  BY StepInside DEF Return, Labels, Outside

LEMMA StartKeeps ==
  ASSUME TokenInv, NEW t \in Threads, NEW h \in Handles, NEW c, Start(t, h, c)
  PROVE  TokenInv'
  BY DEF TokenInv, Start, At, Goto, Labels, Outside

LEMMA AcquireKeeps ==
  ASSUME TokenInv, NEW t \in Threads, Acquire(t)
  PROVE  TokenInv'
<1>1. PICK l \in {"record", "simulate"} : pc' = [pc EXCEPT ![t] = l]
  BY DEF Acquire, Return, Goto
<1>2. /\ pc[t] = "acquire" /\ ticket[on[t]] = NoThread
      /\ ticket' = [ticket EXCEPT ![on[t]] = t] /\ UNCHANGED on
  BY DEF Acquire, At
<1>3. on[t] \in Handles
  BY DEF TokenInv
<1>4. ASSUME NEW u \in Threads, NEW h \in Handles
      PROVE  on[u] = h /\ pc'[u] \notin Outside <=> ticket'[h] = u
  <2>1. CASE u = t
    BY <1>1, <1>2, <1>3, <2>1, FileAssumption DEF TokenInv, Outside
  <2>2. CASE u # t
    BY <1>1, <1>2, <1>3, <2>2, FileAssumption DEF TokenInv, Outside
  <2> QED
    BY <2>1, <2>2
<1> QED
  BY <1>1, <1>2, <1>3, <1>4 DEF TokenInv, Labels

LEMMA ReleaseKeeps ==
  ASSUME TokenInv, NEW t \in Threads, Release(t)
  PROVE  TokenInv'
<1>1. /\ pc[t] = "release" /\ pc' = [pc EXCEPT ![t] = "idle"]
      /\ ticket' = [ticket EXCEPT ![on[t]] = NoThread] /\ UNCHANGED on
  BY DEF Release, Leave, At, Goto
<1>2. on[t] \in Handles /\ ticket[on[t]] = t
  BY <1>1 DEF TokenInv, Outside
<1>3. ASSUME NEW u \in Threads, NEW h \in Handles
      PROVE  on[u] = h /\ pc'[u] \notin Outside <=> ticket'[h] = u
  BY <1>1, <1>2, FileAssumption DEF TokenInv, Outside
<1> QED
  BY <1>1, <1>2, <1>3 DEF TokenInv, Labels

\* What the operation does, and where it goes from its first or second step.
LEMMA OperationKeeps ==
  ASSUME TokenInv, NEW t \in Threads, Operation(t)
  PROVE  TokenInv'
<1>1. pc[t] \notin Outside /\ UNCHANGED <<on, ticket>>
  BY DEF Operation, Read, ReadAt, Write, AppendLoad, AppendStore, WriteAtLoad,
     WriteAtExtend, WriteAtCopy, Seek, ReadDir, Stat, Close, Body, At, Outside
<1>2. PICK l \in {"record", "append", "extend", "copy"} : Goto(t, l)
  BY DEF Operation, Read, ReadAt, Write, AppendLoad, AppendStore, WriteAtLoad,
     WriteAtExtend, WriteAtCopy, Seek, ReadDir, Stat, Close, Return
<1> QED
  BY <1>1, <1>2, StepInside DEF Labels, Outside

LEMMA NextTokenInv == TokenInv /\ [Next]_vars => TokenInv'
<1> SUFFICES ASSUME TokenInv, [Next]_vars PROVE TokenInv'
  OBVIOUS
<1>1. ASSUME NEW t \in Threads, NEW h \in Handles, NEW c \in Calls, Start(t, h, c)
      PROVE  TokenInv'
  BY <1>1, StartKeeps
<1>2. ASSUME NEW t \in Threads, Acquire(t) PROVE TokenInv'
  BY <1>2, AcquireKeeps
<1>3. ASSUME NEW t \in Threads, Simulate(t) PROVE TokenInv'
  <2>1. pc[t] \notin Outside /\ UNCHANGED <<on, ticket>>
    BY <1>3 DEF Simulate, At, Outside
  <2>2. PICK l \in {"record", "inject"} : Goto(t, l)
    BY <1>3 DEF Simulate, Return
  <2> QED
    BY <2>1, <2>2, StepInside DEF Labels, Outside
<1>4. ASSUME NEW t \in Threads, InjectFailure(t) PROVE TokenInv'
  BY <1>4, ReturnInside DEF InjectFailure, At, Outside
<1>5. ASSUME NEW t \in Threads, InjectNothing(t) PROVE TokenInv'
  BY <1>5, StepInside DEF InjectNothing, At, Labels, Outside
<1>6. ASSUME NEW t \in Threads, Operation(t) PROVE TokenInv'
  BY <1>6, OperationKeeps
<1>7. ASSUME NEW t \in Threads, Record(t) PROVE TokenInv'
  BY <1>7, StepInside DEF Record, At, Labels, Outside
<1>8. ASSUME NEW t \in Threads, Release(t) PROVE TokenInv'
  BY <1>8, ReleaseKeeps
<1>9. ASSUME NEW c \in Calls, WriteFile(c.b) PROVE TokenInv'
  BY <1>9 DEF WriteFile, thread, TokenInv
<1>10. CASE UNCHANGED vars
  BY <1>10 DEF vars, thread, TokenInv
<1> QED
  BY <1>1, <1>2, <1>3, <1>4, <1>5, <1>6, <1>7, <1>8, <1>9, <1>10 DEF Next, Done

\* A handle's token is out exactly while one call is between taking it and the
\* end of its deferred calls: for any goroutines, handles and calls, whatever a
\* call returns, a panic included, mockfile.go gives back what it has taken.
THEOREM TokenGivenBack == Spec => []TicketOfCaller
<1>1. Init => TokenInv
  BY InitTokenInv
<1>2. TokenInv /\ [Next]_vars => TokenInv'
  BY NextTokenInv
<1>3. TokenInv => TicketOfCaller
  BY TokenInvTicket
<1> QED
  BY <1>1, <1>2, <1>3, PTL DEF Spec

-----------------------------------------------------------------------------
(* Types: data and the arithmetic of the operations *)

\* The bytes of a file are a sequence that can be allocated.
LEMMA DataForm ==
  \A d : d \in Data <=> d \in Seq(Bytes) /\ Len(d) <= MaxLen
<1>1. MaxLen \in Nat
  BY FileAssumption
<1>2. ASSUME NEW d \in Data PROVE d \in Seq(Bytes) /\ Len(d) <= MaxLen
  <2>1. PICK n \in 0 .. MaxLen : d \in [1 .. n -> Bytes]
    BY DEF Data
  <2> QED
    BY <1>1, <2>1
<1>3. ASSUME NEW d \in Seq(Bytes), Len(d) <= MaxLen PROVE d \in Data
  <2>1. Len(d) \in 0 .. MaxLen /\ d \in [1 .. Len(d) -> Bytes]
    BY <1>1, <1>3, LenProperties
  <2> QED
    BY <2>1 DEF Data
<1> QED
  BY <1>2, <1>3

\* The calls, by what they do.
LEMMA CallForm ==
  ASSUME NEW c \in Calls
  PROVE  /\ c.op \in {"Read", "ReadAt", "Write", "WriteAt", "Seek", "ReadDir", "Stat", "Close"}
         /\ c.op \in {"Read", "ReadAt"} => c.len \in 0 .. MaxLen
         /\ c.op \in {"ReadAt", "WriteAt", "Seek"} => c.off \in Ints
         /\ c.op \in {"Write", "WriteAt"} => c.b \in Data
         /\ c.op = "Seek" => c.whence \in {"start", "current", "end", "other"}
         /\ c.op = "ReadDir" => c.n \in Ints
<1>1. c \in CallType
  BY FileAssumption
<1>2. \/ c \in [op : {"Read"}, len : 0 .. MaxLen]
      \/ c \in [op : {"ReadAt"}, len : 0 .. MaxLen, off : Ints]
      \/ c \in [op : {"Write"}, b : Data]
      \/ c \in [op : {"WriteAt"}, b : Data, off : Ints]
      \/ c \in [op : {"Seek"}, off : Ints, whence : {"start", "current", "end", "other"}]
      \/ c \in [op : {"ReadDir"}, n : Ints]
      \/ c \in [op : {"Stat", "Close"}]
  BY <1>1 DEF CallType
<1> QED
  BY <1>2

\* Sums wrap around once.
LEMMA WrapForm ==
  ASSUME NEW n \in Int
  PROVE  /\ Wrap(n) \in Ints
         /\ n \in Ints => Wrap(n) = n
         /\ n \in MaxInt + 1 .. 2 * MaxInt + 1 => Wrap(n) < 0
<1> PICK m \in Nat \ {0} : m = 2 * (MaxInt + 1)
  BY FileAssumption
<1>1. MaxInt \in Nat /\ n + MaxInt + 1 \in Int
  BY FileAssumption
<1>2. \A a \in Int : a % m \in 0 .. m - 1
  OBVIOUS
<1>3. \A a \in Int : 0 <= a /\ a < m => a % m = a
  OBVIOUS
<1>4. \A a \in Int : m <= a /\ a < 2 * m => a % m = a - m
  OBVIOUS
<1>5. Wrap(n) = ((n + MaxInt + 1) % m) - (MaxInt + 1)
  BY DEF Wrap
<1>6. Wrap(n) \in Ints
  <2>1. (n + MaxInt + 1) % m \in 0 .. m - 1
    BY <1>1, <1>2
  <2> QED
    BY <1>1, <1>5, <2>1 DEF Ints
<1>7. n \in Ints => Wrap(n) = n
  BY <1>1, <1>3, <1>5 DEF Ints
<1>8. n \in MaxInt + 1 .. 2 * MaxInt + 1 => Wrap(n) < 0
  BY <1>1, <1>4, <1>5
<1> QED
  BY <1>6, <1>7, <1>8

\* What copy puts in a buffer is what there is from the offset, as far as it fits.
LEMMA CopyOutForm ==
  ASSUME NEW d \in Data, NEW from \in Nat, from < Len(d), NEW n \in Nat
  PROVE  /\ Len(CopyOut(d, from, n)) \in 0 .. MaxLen
         /\ from + Len(CopyOut(d, from, n)) \in 0 .. MaxLen
<1>1. d \in Seq(Bytes) /\ Len(d) \in Nat /\ Len(d) <= MaxLen /\ MaxLen \in Nat
  BY DataForm, LenProperties, FileAssumption
<1> PICK to : to = AtMost(from + n, Len(d))
  OBVIOUS
<1>2. to \in from .. Len(d)
  BY <1>1 DEF AtMost
<1>3. from + 1 \in 1 .. Len(d) + 1 /\ to \in (from + 1) - 1 .. Len(d)
  BY <1>1, <1>2
<1>4. Len(SubSeq(d, from + 1, to)) = to - (from + 1) + 1
  BY <1>1, <1>3, SubSeqProperties
<1>5. Len(CopyOut(d, from, n)) = to - from
  BY <1>1, <1>2, <1>4 DEF CopyOut
<1> QED
  BY <1>1, <1>2, <1>5

\* Writing into a file keeps its length.
LEMMA CopyInForm ==
  ASSUME NEW d \in Data, NEW at \in Nat, NEW b \in Data
  PROVE  CopyIn(d, at, b) \in Data
<1>1. d \in Seq(Bytes) /\ Len(d) \in Nat /\ Len(d) <= MaxLen
  BY DataForm, LenProperties
<1>2. b \in Seq(Bytes) /\ Len(b) \in Nat
  BY DataForm, LenProperties
<1>3. \A i \in 1 .. Len(d) : (IF i \in at + 1 .. at + Len(b) THEN b[i - at] ELSE d[i]) \in Bytes
  BY <1>1, <1>2
<1>4. CopyIn(d, at, b) \in [1 .. Len(d) -> Bytes] /\ Len(d) \in 0 .. MaxLen
  BY <1>1, <1>3 DEF CopyIn
<1> QED
  BY <1>4 DEF Data

\* Extending pads with zeros.
LEMMA ExtendedForm ==
  ASSUME NEW d \in Data, NEW n \in 0 .. MaxLen
  PROVE  Extended(d, n) \in Data
<1>1. d \in Seq(Bytes) /\ Len(d) \in Nat /\ MaxLen \in Nat
  BY DataForm, LenProperties, FileAssumption
<1>2. \A i \in 1 .. n : (IF i \in 1 .. Len(d) THEN d[i] ELSE 0) \in Bytes
  BY <1>1 DEF Bytes
<1>3. Extended(d, n) \in [1 .. n -> Bytes]
  BY <1>2 DEF Extended
<1> QED
  BY <1>3 DEF Data

\* An append that fits.
LEMMA AppendForm ==
  ASSUME NEW d \in Data, NEW b \in Data, Len(d) + Len(b) <= MaxLen
  PROVE  d \o b \in Data
<1>1. d \in Seq(Bytes) /\ b \in Seq(Bytes)
  BY DataForm
<1>2. d \o b \in Seq(Bytes) /\ Len(d \o b) = Len(d) + Len(b)
  BY <1>1, ConcatProperties
<1> QED
  BY <1>2, DataForm

-----------------------------------------------------------------------------
(* The invariant of the types, and the steps of one thread *)

\* What a thread has settled about its call by the time it is at p: that there
\* is one, and, where its slice is stored, that the result can be allocated.
Settled(p, c, d) ==
  /\ p # "idle" => c \in Calls
  /\ p = "append" => c.op = "Write" /\ Len(d) + Len(c.b) <= MaxLen
  /\ p = "extend" => c.op = "WriteAt" /\ c.off >= 0 /\ c.off + Len(c.b) <= MaxLen
  /\ p = "copy" => c.op = "WriteAt" /\ c.off >= 0

FilePart ==
  /\ data \in Data /\ [dir |-> dir, mode |-> mode] \in Kinds
  /\ position \in [Handles -> Positions]
  /\ offset \in [Handles -> 0 .. EntryCount]
  /\ closed \in [Handles -> BOOLEAN]
  /\ ticket \in [Handles -> Threads \cup {NoThread}]

Tallies == [total : [StatOps -> Nat], failure : [StatOps -> Nat],
            bytesRead : Nat, bytesWritten : Nat]

StatsPart ==
  /\ stats \in [Handles -> Tallies]
  /\ \A h \in Handles, op \in StatOps : stats[h].failure[op] <= stats[h].total[op]

ThreadPart ==
  /\ pc \in [Threads -> Labels]
  /\ on \in [Threads -> Handles]
  /\ call \in [Threads -> Calls \cup {NoCall}]
  /\ loaded \in [Threads -> Data]
  /\ answer = [t \in Threads |-> answer[t]]
  /\ \A t \in Threads : answer[t].n \in Positions
  /\ \A t \in Threads : Settled(pc[t], call[t], loaded[t])
  /\ made \in 0 .. MaxCalls

FileInv == FilePart /\ StatsPart /\ ThreadPart

LEMMA FileInvTypeOK == FileInv => TypeOK
<1> SUFFICES ASSUME FileInv PROVE TypeOK
  OBVIOUS
<1>1. \A h \in Handles, op \in StatOps : stats[h].failure[op] \in 0 .. stats[h].total[op]
  <2> SUFFICES ASSUME NEW h \in Handles, NEW op \in StatOps
      PROVE  stats[h].failure[op] \in 0 .. stats[h].total[op]
    OBVIOUS
  <2>1. stats[h] \in Tallies /\ stats[h].failure[op] <= stats[h].total[op]
    BY DEF FileInv, StatsPart
  <2> QED
    BY <2>1 DEF Tallies
<1> QED
  BY <1>1 DEF FileInv, FilePart, ThreadPart, TypeOK

LEMMA EmptyForm == <<>> \in Data
<1>1. <<>> \in Seq(Bytes) /\ Len(<<>>) = 0 /\ Len(<<>>) <= MaxLen
  BY FileAssumption
<1> QED
  BY <1>1, DataForm

LEMMA InitFileInv == Init => FileInv
<1> SUFFICES ASSUME Init PROVE FileInv
  OBVIOUS
<1>1. (CHOOSE h \in Handles : TRUE) \in Handles /\ 0 \in Positions /\ 0 \in 0 .. EntryCount
      /\ 0 \in 0 .. MaxCalls
  BY FileAssumption DEF Positions
<1>2. FilePart
  <2>1. data \in Data /\ [dir |-> dir, mode |-> mode] \in Kinds
    BY EmptyForm, FileAssumption DEF Init
  <2> QED
    BY <1>1, <2>1 DEF Init, FilePart
<1>3. StatsPart
  BY DEF Init, StatsPart, Tallies, NewStats
<1>4. ThreadPart
  BY <1>1, EmptyForm DEF Init, ThreadPart, Labels, Settled, None
<1> QED
  BY <1>2, <1>3, <1>4 DEF FileInv

\* The steps inside of a call change the state of one thread.
LEMMA ThreadMoves ==
  ASSUME ThreadPart, NEW t \in Threads, NEW p \in Labels, Goto(t, p),
         pc[t] # "idle", UNCHANGED <<on, call, made>>,
         NEW d \in Data, loaded' \in {loaded, [loaded EXCEPT ![t] = d]},
         NEW a, a.n \in Positions, answer' \in {answer, [answer EXCEPT ![t] = a]},
         Settled(p, call[t], loaded'[t])
  PROVE  ThreadPart'
<1>1. pc' \in [Threads -> Labels] /\ on' \in [Threads -> Handles]
      /\ call' \in [Threads -> Calls \cup {NoCall}] /\ loaded' \in [Threads -> Data]
      /\ answer' = [u \in Threads |-> answer'[u]] /\ made' \in 0 .. MaxCalls
  BY DEF ThreadPart, Goto
<1>2. \A u \in Threads : answer'[u].n \in Positions
  BY DEF ThreadPart
<1>3. ASSUME NEW u \in Threads PROVE Settled(pc'[u], call'[u], loaded'[u])
  <2>1. CASE u = t
    BY <2>1 DEF ThreadPart, Goto
  <2>2. CASE u # t
    <3>1. pc'[u] = pc[u] /\ call'[u] = call[u] /\ loaded'[u] = loaded[u]
      BY <2>2 DEF ThreadPart, Goto
    <3> QED
      BY <3>1 DEF ThreadPart
  <2> QED
    BY <2>1, <2>2
<1> QED
  BY <1>1, <1>2, <1>3 DEF ThreadPart

\* A call is where it is answered.
LEMMA ThreadReturns ==
  ASSUME ThreadPart, NEW t \in Threads, pc[t] # "idle",
         NEW a, a.n \in Positions, Return(t, a),
         UNCHANGED <<on, call, made>>, loaded' \in {loaded, [loaded EXCEPT ![t] = <<>>]}
  PROVE  ThreadPart'
<1>1. "record" \in Labels /\ Goto(t, "record") /\ answer' = [answer EXCEPT ![t] = a]
  BY DEF Return, Labels
<1>2. Settled("record", call[t], loaded'[t])
  BY DEF ThreadPart, Settled
<1> QED
  BY <1>1, <1>2, ThreadMoves, EmptyForm

\* A call goes on to a place where nothing new is settled.
LEMMA ThreadGoes ==
  ASSUME ThreadPart, NEW t \in Threads, pc[t] # "idle",
         NEW p \in {"simulate", "inject", "body", "record", "release"}, Goto(t, p),
         UNCHANGED <<on, call, made, loaded, answer>>
  PROVE  ThreadPart'
<1>1. p \in Labels /\ Settled(p, call[t], loaded[t])
  BY DEF ThreadPart, Settled, Labels
<1>2. 0 \in Positions /\ None.n = 0
  BY FileAssumption DEF Positions, None
<1> QED
  BY <1>1, <1>2, ThreadMoves, EmptyForm

LEMMA FailureForm == \A e : Failure(e).n \in Positions
  BY FileAssumption DEF Failure, Answer, Positions

LEMMA AnswerForm == \A e, n, out : Answer(e, n, out).n = n
  BY DEF Answer

\* A thread that is not idle has a call.
LEMMA CallUnderWay ==
  ASSUME ThreadPart, NEW t \in Threads, pc[t] # "idle"
  PROVE  call[t] \in Calls /\ on[t] \in Handles
  BY DEF ThreadPart, Settled

LEMMA StatsKept == StatsPart /\ UNCHANGED stats => StatsPart'
  BY DEF StatsPart

-----------------------------------------------------------------------------
(* The types, action by action *)

LEMMA StartTyped ==
  ASSUME FileInv, NEW t \in Threads, NEW h \in Handles, NEW c \in Calls, Start(t, h, c)
  PROVE  FileInv'
<1>1. FilePart' /\ StatsPart'
  BY StatsKept DEF Start, FileInv, FilePart, handle
<1>2. /\ pc' = [pc EXCEPT ![t] = "acquire"] /\ on' = [on EXCEPT ![t] = h]
      /\ call' = [call EXCEPT ![t] = c] /\ made' = made + 1 /\ made < MaxCalls
      /\ UNCHANGED <<loaded, answer>>
  BY DEF Start, Goto
<1>3. ThreadPart
  BY DEF FileInv
<1>4. \A u \in Threads : Settled(pc'[u], call'[u], loaded'[u])
  BY <1>2, <1>3 DEF ThreadPart, Settled
<1>5. made' \in 0 .. MaxCalls /\ "acquire" \in Labels
  BY <1>2, <1>3, FileAssumption DEF ThreadPart, Labels
<1>6. ThreadPart'
  BY <1>2, <1>3, <1>4, <1>5 DEF ThreadPart
<1> QED
  BY <1>1, <1>6 DEF FileInv

LEMMA AcquireTyped ==
  ASSUME FileInv, NEW t \in Threads, Acquire(t)
  PROVE  FileInv'
<1>1. FilePart' /\ StatsPart'
  BY StatsKept DEF Acquire, FileInv, FilePart, ThreadPart, handle
<1>2. pc[t] # "idle" /\ UNCHANGED <<on, call, loaded, made>> /\ ThreadPart
  BY DEF Acquire, At, FileInv
<1>3. CASE Return(t, Failure("ErrClosed"))
  <2>1. ThreadPart'
    BY <1>2, <1>3, ThreadReturns, FailureForm
  <2> QED
    BY <1>1, <2>1 DEF FileInv
<1>4. CASE Return(t, Failure("ErrInvalid"))
  <2>1. ThreadPart'
    BY <1>2, <1>4, ThreadReturns, FailureForm
  <2> QED
    BY <1>1, <2>1 DEF FileInv
<1>5. CASE Goto(t, "simulate") /\ UNCHANGED answer
  <2>1. ThreadPart'
    BY <1>2, <1>5, ThreadGoes
  <2> QED
    BY <1>1, <2>1 DEF FileInv
<1> QED
  BY <1>3, <1>4, <1>5 DEF Acquire

\* A call that only answers.
LEMMA AnsweredTyped ==
  ASSUME FileInv, NEW t \in Threads, pc[t] # "idle", NEW a, a.n \in Positions, Return(t, a),
         FilePart', UNCHANGED <<stats, on, call, made>>,
         loaded' \in {loaded, [loaded EXCEPT ![t] = <<>>]}
  PROVE  FileInv'
<1>1. ThreadPart'
  BY ThreadReturns DEF FileInv
<1> QED
  BY <1>1, StatsKept DEF FileInv

LEMMA SimulateTyped ==
  ASSUME FileInv, NEW t \in Threads, Simulate(t)
  PROVE  FileInv'
<1>1. FilePart' /\ StatsPart' /\ ThreadPart /\ pc[t] # "idle"
      /\ UNCHANGED <<stats, on, call, loaded, made>>
  BY StatsKept DEF Simulate, FileInv, FilePart, handle, At
<1>2. CASE Return(t, Failure("ErrPermission"))
  BY <1>1, <1>2, AnsweredTyped, FailureForm
<1>3. CASE Goto(t, "inject") /\ UNCHANGED answer
  <2>1. ThreadPart'
    BY <1>1, <1>3, ThreadGoes
  <2> QED
    BY <1>1, <2>1 DEF FileInv
<1> QED
  BY <1>2, <1>3 DEF Simulate

LEMMA InjectTyped ==
  ASSUME FileInv, NEW t \in Threads, InjectFailure(t) \/ InjectNothing(t)
  PROVE  FileInv'
<1>1. CASE InjectFailure(t)
  <2>1. FilePart' /\ pc[t] # "idle" /\ UNCHANGED <<stats, on, call, loaded, made>>
        /\ Return(t, Failure("injected"))
    BY <1>1 DEF InjectFailure, FileInv, FilePart, At
  <2> QED
    BY <2>1, AnsweredTyped, FailureForm
<1>2. CASE InjectNothing(t)
  <2>1. FilePart' /\ StatsPart'
    BY <1>2, StatsKept DEF InjectNothing, FileInv, FilePart, handle
  <2>2. ThreadPart'
    BY <1>2, ThreadGoes DEF InjectNothing, FileInv, At
  <2> QED
    BY <2>1, <2>2 DEF FileInv
<1> QED
  BY <1>1, <1>2

LEMMA ReadTyped ==
  ASSUME FileInv, NEW t \in Threads, Read(t)
  PROVE  FileInv'
<1> PICK h \in Handles : h = on[t]
  BY DEF FileInv, ThreadPart
<1>1. /\ pc[t] # "idle" /\ call[t] \in Calls /\ call[t].op = "Read"
      /\ UNCHANGED <<data, dir, mode, offset, closed, ticket, stats, on, call, loaded, made>>
  BY CallUnderWay DEF Read, Body, At, FileInv
<1>2. data \in Data /\ position[h] \in Nat /\ call[t].len \in Nat
      /\ MaxLen \in 0 .. MaxInt /\ MaxInt \in Nat
  BY <1>1, CallForm, FileAssumption DEF FileInv, FilePart, Positions
<1> PICK out : out = CopyOut(data, position[h], call[t].len)
  OBVIOUS
<1>3. CASE position[h] >= Len(data)
  <2>1. Return(t, Failure("EOF")) /\ UNCHANGED position
    BY <1>3 DEF Read
  <2>2. FilePart'
    BY <1>1, <2>1 DEF FileInv, FilePart
  <2> QED
    BY <1>1, <2>1, <2>2, AnsweredTyped, FailureForm
<1>4. CASE ~(position[h] >= Len(data))
  <2>1. Return(t, Answer("nil", Len(out), out))
        /\ position' = [position EXCEPT ![h] = @ + Len(out)]
    BY <1>4 DEF Read
  <2>2. Len(data) \in Nat
    BY <1>2, DataForm, LenProperties
  <2>3. position[h] < Len(data)
    BY <1>2, <1>4, <2>2
  <2>4. Len(out) \in Positions /\ position[h] + Len(out) \in Positions
    BY <1>2, <2>3, CopyOutForm DEF Positions
  <2>5. FilePart'
    BY <1>1, <2>1, <2>4 DEF FileInv, FilePart
  <2> QED
    BY <1>1, <2>1, <2>4, <2>5, AnsweredTyped, AnswerForm
<1> QED
  BY <1>3, <1>4

LEMMA ReadAtTyped ==
  ASSUME FileInv, NEW t \in Threads, ReadAt(t)
  PROVE  FileInv'
<1>1. /\ pc[t] # "idle" /\ call[t] \in Calls /\ call[t].op = "ReadAt"
      /\ UNCHANGED <<data, dir, mode, handle, ticket, stats, on, call, loaded, made>>
  BY CallUnderWay DEF ReadAt, Body, At, FileInv
<1> PICK c : c = call[t]
  OBVIOUS
<1>2. data \in Data /\ c.off \in Int /\ c.len \in Nat /\ Len(data) \in Nat
      /\ MaxLen \in 0 .. MaxInt /\ MaxInt \in Nat
  BY <1>1, CallForm, FileAssumption, DataForm, LenProperties DEF FileInv, FilePart, Ints
<1>3. FilePart'
  BY <1>1 DEF FileInv, FilePart, handle
<1> PICK out : out = CopyOut(data, c.off, c.len)
  OBVIOUS
<1>4. CASE c.off < 0
  BY <1>1, <1>3, <1>4, AnsweredTyped, FailureForm DEF ReadAt
<1>5. CASE ~(c.off < 0) /\ c.off >= Len(data)
  BY <1>1, <1>3, <1>5, AnsweredTyped, FailureForm DEF ReadAt
<1>6. CASE ~(c.off < 0) /\ ~(c.off >= Len(data))
  <2>1. PICK e : Return(t, Answer(e, Len(out), out))
    BY <1>6 DEF ReadAt
  <2>2. c.off \in Nat /\ c.off < Len(data)
    BY <1>2, <1>6
  <2>3. Len(out) \in Positions
    BY <1>2, <2>2, CopyOutForm DEF Positions
  <2> QED
    BY <1>1, <1>3, <2>1, <2>3, AnsweredTyped, AnswerForm
<1> QED
  BY <1>4, <1>5, <1>6

LEMMA WriteTyped ==
  ASSUME FileInv, NEW t \in Threads, Write(t)
  PROVE  FileInv'
<1>1. /\ pc[t] # "idle" /\ call[t] \in Calls /\ call[t].op = "Write" /\ on[t] \in Handles
      /\ UNCHANGED <<dir, mode, offset, closed, ticket, stats, on, call, loaded, made>>
  BY CallUnderWay DEF Write, Body, At, FileInv
<1> PICK b \in Data : b = call[t].b
  BY <1>1, CallForm
<1>2. Len(b) \in Positions
  BY DataForm, LenProperties, FileAssumption DEF Positions
<1>3. CASE mode = "readOnly"
  <2>1. Return(t, Failure("ErrPermission")) /\ FilePart'
    BY <1>1, <1>3 DEF Write, FileInv, FilePart
  <2> QED
    BY <1>1, <2>1, AnsweredTyped, FailureForm
<1>4. CASE mode # "readOnly"
  <2>1. /\ Return(t, Answer("nil", Len(b), <<>>))
        /\ data' = b /\ position' = [position EXCEPT ![on[t]] = Len(b)]
    BY <1>4 DEF Write
  <2>2. FilePart'
    BY <1>1, <1>2, <2>1 DEF FileInv, FilePart
  <2> QED
    BY <1>1, <1>2, <2>1, <2>2, AnsweredTyped, AnswerForm
<1> QED
  BY <1>3, <1>4

LEMMA AppendTyped ==
  ASSUME FileInv, NEW t \in Threads, AppendLoad(t) \/ AppendStore(t)
  PROVE  FileInv'
<1> PICK c : c = call[t]
  OBVIOUS
<1>1. pc[t] # "idle" /\ c \in Calls /\ ThreadPart /\ UNCHANGED <<stats, on, call, made>>
  BY CallUnderWay DEF AppendLoad, AppendStore, Body, At, FileInv
<1>2. CASE AppendLoad(t)
  <2>1. FilePart' /\ c.op = "Write" /\ data \in Data
    BY <1>2 DEF AppendLoad, Body, FileInv, FilePart, handle
  <2>2. CASE Return(t, Failure("panic")) /\ UNCHANGED loaded
    BY <1>1, <2>1, <2>2, AnsweredTyped, FailureForm
  <2>3. CASE ~(Len(data) + Len(c.b) > MaxLen)
    <3>1. /\ loaded' = [loaded EXCEPT ![t] = data] /\ Goto(t, "append") /\ UNCHANGED answer
      BY <1>2, <2>3 DEF AppendLoad
    <3>2. c.b \in Data
      BY <1>1, <2>1, CallForm
    <3>3. Len(data) \in Nat /\ Len(c.b) \in Nat /\ MaxLen \in Nat
      BY <2>1, <3>2, DataForm, LenProperties, FileAssumption
    <3>4. Len(data) + Len(c.b) <= MaxLen
      BY <2>3, <3>3
    <3>5. loaded'[t] = data /\ "append" \in Labels
      BY <1>1, <3>1 DEF ThreadPart, Labels
    <3>6. Settled("append", c, loaded'[t])
      BY <1>1, <2>1, <3>4, <3>5 DEF Settled
    <3>7. None.n \in Positions /\ answer' \in {answer, [answer EXCEPT ![t] = None]}
          /\ loaded' \in {loaded, [loaded EXCEPT ![t] = data]}
      BY <3>1, FileAssumption DEF Positions, None
    <3>8. ThreadPart'
      BY <1>1, <2>1, <3>1, <3>5, <3>6, <3>7, ThreadMoves, Zenon
    <3> QED
      BY <1>1, <2>1, <3>8, StatsKept DEF FileInv
  <2> QED
    BY <1>2, <2>2, <2>3 DEF AppendLoad
<1>3. CASE AppendStore(t)
  <2>1. /\ data' = loaded[t] \o c.b /\ Return(t, Answer("nil", Len(c.b), <<>>))
        /\ loaded' = [loaded EXCEPT ![t] = <<>>]
    BY <1>3 DEF AppendStore
  <2>2. c.op = "Write" /\ Len(loaded[t]) + Len(c.b) <= MaxLen /\ loaded[t] \in Data
    BY <1>1, <1>3 DEF AppendStore, At, ThreadPart, Settled
  <2>3. c.b \in Data
    BY <1>1, <2>2, CallForm
  <2>4. data' \in Data
    BY <2>1, <2>2, <2>3, AppendForm
  <2>5. Len(c.b) \in Positions
    BY <2>3, DataForm, LenProperties, FileAssumption DEF Positions
  <2>6. FilePart'
    BY <1>3, <2>4 DEF AppendStore, FileInv, FilePart, handle
  <2>7. Answer("nil", Len(c.b), <<>>).n \in Positions
    BY <2>5, AnswerForm
  <2>8. loaded' \in {loaded, [loaded EXCEPT ![t] = <<>>]}
    BY <2>1
  <2> QED
    BY <1>1, <2>1, <2>6, <2>7, <2>8, AnsweredTyped, Zenon
<1> QED
  BY <1>2, <1>3

LEMMA WriteAtLoadTyped ==
  ASSUME FileInv, NEW t \in Threads, WriteAtLoad(t)
  PROVE  FileInv'
<1> PICK c : c = call[t]
  OBVIOUS
<1>1. /\ pc[t] # "idle" /\ c \in Calls /\ c.op = "WriteAt" /\ ThreadPart
      /\ UNCHANGED <<data, dir, mode, handle, ticket, stats, on, call, made>>
  BY CallUnderWay DEF WriteAtLoad, Body, At, FileInv
<1>2. FilePart' /\ data \in Data
  BY <1>1 DEF FileInv, FilePart, handle
<1>3. c.off \in Ints /\ c.b \in Data
  BY <1>1, CallForm
<1> PICK needed : needed = Wrap(c.off + Len(c.b))
  OBVIOUS
<1>4. CASE Return(t, Failure("ErrNegativeOffset")) /\ UNCHANGED loaded
  BY <1>1, <1>2, <1>4, AnsweredTyped, FailureForm
<1>5. CASE Return(t, Failure("panic")) /\ UNCHANGED loaded
  BY <1>1, <1>2, <1>5, AnsweredTyped, FailureForm
<1>6. CASE ~(c.off < 0) /\ ~(needed > MaxLen)
  <2>1. PICK p \in {"extend", "copy"} :
          /\ p = "extend" => needed > Len(data)
          /\ Goto(t, p) /\ UNCHANGED answer /\ loaded' = [loaded EXCEPT ![t] = data]
    BY <1>6 DEF WriteAtLoad
  <2>2. /\ Len(c.b) \in Nat /\ Len(c.b) <= MaxLen /\ Len(data) \in Nat
        /\ MaxLen \in 0 .. MaxInt /\ MaxInt \in Nat
    BY <1>2, <1>3, DataForm, LenProperties, FileAssumption
  <2>3. c.off \in Nat /\ c.off <= MaxInt
    BY <1>3, <1>6, <2>2 DEF Ints
  <2>4. p = "extend" => c.off + Len(c.b) <= MaxLen
    <3> SUFFICES ASSUME needed > Len(data) PROVE c.off + Len(c.b) <= MaxLen
      BY <2>1
    <3> PICK n \in Int : n = c.off + Len(c.b)
      BY <2>2, <2>3
    <3>1. n \in 0 .. 2 * MaxInt + 1
      BY <2>2, <2>3
    <3>2. needed \in Int /\ ~(needed < 0)
      BY <2>2, WrapForm DEF Ints
    <3>3. n \in Ints
      BY <2>2, <3>1, <3>2, WrapForm DEF Ints
    <3>4. needed = n
      BY <3>3, WrapForm
    <3> QED
      BY <1>6, <2>2, <3>4
  <2>5. p \in Labels /\ loaded'[t] = data
    BY <1>1, <2>1 DEF ThreadPart, Labels
  <2>6. Settled(p, c, loaded'[t])
    BY <1>1, <2>3, <2>4 DEF Settled
  <2>7. None.n \in Positions /\ answer' \in {answer, [answer EXCEPT ![t] = None]}
        /\ loaded' \in {loaded, [loaded EXCEPT ![t] = data]}
    BY <2>1, FileAssumption DEF Positions, None
  <2>8. ThreadPart'
    BY <1>1, <1>2, <2>1, <2>5, <2>6, <2>7, ThreadMoves, Zenon
  <2> QED
    BY <1>1, <1>2, <2>8, StatsKept DEF FileInv
<1> QED
  BY <1>4, <1>5, <1>6 DEF WriteAtLoad

LEMMA WriteAtExtendTyped ==
  ASSUME FileInv, NEW t \in Threads, WriteAtExtend(t)
  PROVE  FileInv'
<1> PICK c : c = call[t]
  OBVIOUS
<1>1. /\ pc[t] = "extend" /\ c \in Calls /\ ThreadPart /\ Goto(t, "copy")
      /\ UNCHANGED <<dir, mode, handle, ticket, stats, on, call, loaded, answer, made>>
      /\ data' = Extended(loaded[t], c.off + Len(c.b))
  BY CallUnderWay DEF WriteAtExtend, At, FileInv
<1>2. /\ c.op = "WriteAt" /\ c.off >= 0 /\ c.off + Len(c.b) <= MaxLen
      /\ loaded[t] \in Data
  BY <1>1 DEF ThreadPart, Settled
<1>3. c.off \in Int /\ c.b \in Data /\ Len(c.b) \in Nat /\ MaxLen \in Nat
  BY <1>1, <1>2, CallForm, DataForm, LenProperties, FileAssumption DEF Ints
<1>4. c.off + Len(c.b) \in 0 .. MaxLen
  BY <1>2, <1>3
<1>5. FilePart'
  BY <1>1, <1>2, <1>4, ExtendedForm DEF FileInv, FilePart, handle
<1>6. "copy" \in Labels /\ Settled("copy", c, loaded'[t])
  BY <1>1, <1>2 DEF Settled, Labels
<1>7. None.n \in Positions /\ answer' \in {answer, [answer EXCEPT ![t] = None]}
      /\ loaded' \in {loaded, [loaded EXCEPT ![t] = <<>>]}
  BY <1>1, FileAssumption DEF Positions, None
<1>8. ThreadPart'
  BY <1>1, <1>6, <1>7, EmptyForm, ThreadMoves, Zenon
<1> QED
  BY <1>1, <1>5, <1>8, StatsKept DEF FileInv

LEMMA WriteAtCopyTyped ==
  ASSUME FileInv, NEW t \in Threads, WriteAtCopy(t)
  PROVE  FileInv'
<1> PICK c : c = call[t]
  OBVIOUS
<1>1. /\ pc[t] = "copy" /\ c \in Calls /\ ThreadPart
      /\ UNCHANGED <<dir, mode, handle, ticket, stats, on, call, made>>
      /\ loaded' \in {loaded, [loaded EXCEPT ![t] = <<>>]}
  BY CallUnderWay DEF WriteAtCopy, At, FileInv
<1>2. c.op = "WriteAt" /\ c.off >= 0 /\ data \in Data
  BY <1>1 DEF ThreadPart, Settled, FileInv, FilePart
<1>3. /\ c.off \in Nat /\ c.b \in Data /\ Len(c.b) \in Nat /\ Len(data) \in Nat
      /\ Len(c.b) <= MaxLen /\ MaxLen \in 0 .. MaxInt /\ MaxInt \in Nat
  BY <1>1, <1>2, CallForm, DataForm, LenProperties, FileAssumption DEF Ints
<1>4. CASE Return(t, Failure("panic")) /\ UNCHANGED data
  <2>1. FilePart'
    BY <1>1, <1>4 DEF FileInv, FilePart, handle
  <2> QED
    BY <1>1, <1>4, <2>1, AnsweredTyped, FailureForm
<1>5. CASE ~(c.off > Len(data))
  <2>1. /\ Return(t, Answer("nil", AtMost(Len(c.b), Len(data) - c.off), <<>>))
        /\ data' = CopyIn(data, c.off, c.b)
    BY <1>5 DEF WriteAtCopy
  <2>2. AtMost(Len(c.b), Len(data) - c.off) \in Positions
    BY <1>3, <1>5 DEF AtMost, Positions
  <2>3. FilePart'
    BY <1>1, <1>2, <1>3, <2>1, CopyInForm DEF FileInv, FilePart, handle
  <2> QED
    BY <1>1, <2>1, <2>2, <2>3, AnsweredTyped, AnswerForm
<1> QED
  BY <1>4, <1>5 DEF WriteAtCopy

LEMMA SeekTyped ==
  ASSUME FileInv, NEW t \in Threads, Seek(t)
  PROVE  FileInv'
<1> PICK c : c = call[t]
  OBVIOUS
<1>1. /\ pc[t] # "idle" /\ c \in Calls /\ c.op = "Seek" /\ on[t] \in Handles
      /\ UNCHANGED <<data, dir, mode, offset, closed, ticket, stats, on, call, loaded, made>>
  BY CallUnderWay DEF Seek, Body, At, FileInv
<1>2. /\ c.off \in Ints /\ c.whence \in {"start", "current", "end", "other"}
      /\ position[on[t]] \in Nat /\ Len(data) \in Nat /\ MaxInt \in Nat
  BY <1>1, CallForm, DataForm, LenProperties, FileAssumption DEF FileInv, FilePart, Positions
<1>3. Target(t) \in Ints
  <2>1. position[on[t]] + c.off \in Int /\ Len(data) + c.off \in Int /\ -1 \in Ints
    BY <1>2 DEF Ints
  <2>2. Wrap(position[on[t]] + c.off) \in Ints /\ Wrap(Len(data) + c.off) \in Ints
    BY <2>1, WrapForm
  <2> QED
    BY <1>2, <2>1, <2>2 DEF Target
<1> PICK n \in Ints : n = Target(t)
  BY <1>3
<1>4. CASE n < 0
  <2>1. Return(t, Failure("ErrInvalid")) /\ FilePart'
    BY <1>1, <1>4 DEF Seek, FileInv, FilePart
  <2> QED
    BY <1>1, <2>1, AnsweredTyped, FailureForm
<1>5. CASE ~(n < 0)
  <2>1. Return(t, Answer("nil", n, <<>>)) /\ position' = [position EXCEPT ![on[t]] = n]
    BY <1>5 DEF Seek
  <2>2. n \in Positions
    BY <1>2, <1>5 DEF Ints, Positions
  <2>3. FilePart'
    BY <1>1, <2>1, <2>2 DEF FileInv, FilePart
  <2> QED
    BY <1>1, <2>1, <2>2, <2>3, AnsweredTyped, AnswerForm
<1> QED
  BY <1>4, <1>5

LEMMA ReadDirTyped ==
  ASSUME FileInv, NEW t \in Threads, ReadDir(t)
  PROVE  FileInv'
<1> PICK h \in Handles : h = on[t]
  BY DEF FileInv, ThreadPart
<1>1. /\ pc[t] # "idle" /\ call[t] \in Calls /\ call[t].op = "ReadDir"
      /\ UNCHANGED <<data, dir, mode, position, closed, ticket, stats, on, call, loaded, made>>
  BY CallUnderWay DEF ReadDir, Body, At, FileInv
<1> PICK n \in Ints : n = call[t].n
  BY <1>1, CallForm
<1>2. offset[h] \in 0 .. EntryCount /\ EntryCount \in 0 .. MaxInt /\ MaxInt \in Nat /\ n \in Int
  BY FileAssumption DEF FileInv, FilePart, Ints
<1> PICK next \in Int : next = Wrap(offset[h] + n)
  BY <1>2, WrapForm DEF Ints
<1> PICK end : end = IF n > 0 /\ next < EntryCount THEN next ELSE EntryCount
  OBVIOUS
<1>3. end \in Int /\ end <= EntryCount
  BY <1>2
<1>4. CASE \E e : Return(t, Failure(e)) /\ UNCHANGED offset
  <2>1. FilePart'
    BY <1>1, <1>4 DEF FileInv, FilePart
  <2> QED
    BY <1>1, <1>4, <2>1, AnsweredTyped, FailureForm
<1>5. CASE ~(end < offset[h])
  <2> PICK batch : batch = [i \in 1 .. end - offset[h] |-> offset[h] + i]
    OBVIOUS
  <2> SUFFICES ASSUME NEW e, Return(t, Answer(e, Len(batch), batch)),
                      offset' = [offset EXCEPT ![h] = end]
      PROVE  FileInv'
    BY <1>4, <1>5 DEF ReadDir
  <2>1. Len(batch) = end - offset[h]
    BY <1>2, <1>3, <1>5
  <2>2. Len(batch) \in Positions /\ end \in 0 .. EntryCount
    BY <1>2, <1>3, <1>5, <2>1 DEF Positions
  <2>3. FilePart'
    BY <1>1, <2>2 DEF FileInv, FilePart
  <2>4. Answer(e, Len(batch), batch).n \in Positions
    BY <2>2 DEF Answer
  <2>5. /\ UNCHANGED <<stats, on, call, made>> /\ pc[t] # "idle"
        /\ loaded' \in {loaded, [loaded EXCEPT ![t] = <<>>]}
    BY <1>1
  <2> QED
    BY <2>3, <2>4, <2>5, AnsweredTyped, Zenon
<1> QED
  BY <1>4, <1>5 DEF ReadDir

LEMMA StatTyped ==
  ASSUME FileInv, NEW t \in Threads, Stat(t)
  PROVE  FileInv'
<1>1. /\ pc[t] # "idle" /\ FilePart' /\ UNCHANGED <<stats, on, call, loaded, made>>
  BY DEF Stat, Body, At, FileInv, FilePart, handle
<1> PICK n : n = IF dir THEN 0 ELSE Len(data)
  OBVIOUS
<1>2. Len(data) \in Positions /\ 0 \in Positions
  BY DataForm, LenProperties, FileAssumption DEF FileInv, FilePart, Positions
<1>3. n \in Positions /\ Return(t, Answer("nil", n, <<>>))
  BY <1>2 DEF Stat
<1> QED
  BY <1>1, <1>3, AnsweredTyped, AnswerForm

LEMMA CloseTyped ==
  ASSUME FileInv, NEW t \in Threads, Close(t)
  PROVE  FileInv'
<1>1. pc[t] # "idle" /\ Return(t, Failure("nil")) /\ UNCHANGED <<stats, on, call, loaded, made>>
  BY DEF Close, Body, At
<1>2. FilePart'
  BY DEF Close, FileInv, FilePart
<1> QED
  BY <1>1, <1>2, AnsweredTyped, FailureForm

LEMMA OperationTyped ==
  ASSUME FileInv, NEW t \in Threads, Operation(t)
  PROVE  FileInv'
  BY ReadTyped, ReadAtTyped, WriteTyped, AppendTyped, WriteAtLoadTyped, WriteAtExtendTyped,
     WriteAtCopyTyped, SeekTyped, ReadDirTyped, StatTyped, CloseTyped DEF Operation

\* Record counts a failure only with a call.
LEMMA RecordedForm ==
  ASSUME NEW s \in Tallies, NEW op \in StatOps, NEW a, a.n \in Positions,
         \A o \in StatOps : s.failure[o] <= s.total[o]
  PROVE  /\ Recorded(s, op, a) \in Tallies
         /\ \A o \in StatOps : Recorded(s, op, a).failure[o] <= Recorded(s, op, a).total[o]
<1> PICK r : r = Recorded(s, op, a)
  OBVIOUS
<1> PICK n \in Nat : n = IF a.err = "panic" THEN 0 ELSE a.n
  BY DEF Positions
<1>1. /\ s.total \in [StatOps -> Nat] /\ s.failure \in [StatOps -> Nat]
      /\ s.bytesRead \in Nat /\ s.bytesWritten \in Nat
  BY DEF Tallies
<1>2. r = [total        |-> [s.total EXCEPT ![op] = @ + 1],
           failure      |-> [s.failure EXCEPT ![op] = IF a.err \in {"nil", "panic"} THEN @ ELSE @ + 1],
           bytesRead    |-> IF op = "Read" THEN s.bytesRead + n ELSE s.bytesRead,
           bytesWritten |-> IF op = "Write" THEN s.bytesWritten + n ELSE s.bytesWritten]
  BY DEF Recorded, Tallies
<1>3. r.total \in [StatOps -> Nat] /\ r.failure \in [StatOps -> Nat]
  BY <1>1, <1>2
<1>4. r \in Tallies
  BY <1>1, <1>2, <1>3 DEF Tallies
<1>5. ASSUME NEW o \in StatOps PROVE r.failure[o] <= r.total[o]
  <2>1. s.failure[o] \in Nat /\ s.total[o] \in Nat /\ s.failure[o] <= s.total[o]
    BY <1>1
  <2>2. CASE o = op
    <3>1. r.total[o] = s.total[o] + 1 /\ r.failure[o] \in {s.failure[o], s.failure[o] + 1}
      BY <1>1, <1>2, <2>2
    <3> QED
      BY <2>1, <3>1
  <2>3. CASE o # op
    BY <1>1, <1>2, <2>1, <2>3
  <2> QED
    BY <2>2, <2>3
<1> QED
  BY <1>4, <1>5

LEMMA RecordTyped ==
  ASSUME FileInv, NEW t \in Threads, Record(t)
  PROVE  FileInv'
<1> PICK h \in Handles : h = on[t]
  BY DEF FileInv, ThreadPart
<1>1. /\ pc[t] # "idle" /\ call[t] \in Calls /\ FilePart' /\ ThreadPart'
  <2>1. pc[t] # "idle" /\ Goto(t, "release") /\ UNCHANGED <<on, call, made, loaded, answer>>
    BY DEF Record, At
  <2>2. FilePart'
    BY DEF Record, FileInv, FilePart, handle
  <2> QED
    BY <2>1, <2>2, ThreadGoes, CallUnderWay DEF FileInv
<1>2. StatOp(call[t].op) \in StatOps
  BY <1>1, CallForm DEF StatOp, StatOps
<1> PICK r : r = Recorded(stats[h], StatOp(call[t].op), answer[t])
  OBVIOUS
<1>3. stats' = [stats EXCEPT ![h] = r]
  BY DEF Record
<1>4. /\ answer[t].n \in Positions /\ stats \in [Handles -> Tallies]
      /\ \A k \in Handles, o \in StatOps : stats[k].failure[o] <= stats[k].total[o]
  BY DEF FileInv, ThreadPart, StatsPart
<1>5. r \in Tallies /\ \A o \in StatOps : r.failure[o] <= r.total[o]
  BY <1>2, <1>4, RecordedForm
<1>6. StatsPart'
  BY <1>3, <1>4, <1>5 DEF StatsPart
<1> QED
  BY <1>1, <1>6 DEF FileInv

LEMMA ReleaseTyped ==
  ASSUME FileInv, NEW t \in Threads, Release(t)
  PROVE  FileInv'
<1>1. FilePart' /\ StatsPart'
  BY StatsKept DEF Release, FileInv, FilePart, ThreadPart, handle
<1>2. /\ pc' = [pc EXCEPT ![t] = "idle"] /\ call' = [call EXCEPT ![t] = NoCall]
      /\ answer' = [answer EXCEPT ![t] = None] /\ UNCHANGED <<on, loaded, made>>
  BY DEF Release, Leave, Goto
<1>3. ThreadPart
  BY DEF FileInv
<1>4. \A u \in Threads : Settled(pc'[u], call'[u], loaded'[u])
  BY <1>2, <1>3 DEF ThreadPart, Settled
<1>5. None.n \in Positions /\ "idle" \in Labels
  BY FileAssumption DEF None, Positions, Labels
<1>6. ThreadPart'
  BY <1>2, <1>3, <1>4, <1>5 DEF ThreadPart
<1> QED
  BY <1>1, <1>6 DEF FileInv

LEMMA WriteFileTyped ==
  ASSUME FileInv, NEW b \in Data, WriteFile(b)
  PROVE  FileInv'
<1>1. data' = (IF mode = "append" THEN data \o b ELSE b) /\ Len(data') <= MaxLen
  BY DEF WriteFile
<1>2. data' \in Data
  <2>1. data \in Seq(Bytes) /\ b \in Seq(Bytes)
    BY DataForm DEF FileInv, FilePart
  <2>2. data \o b \in Seq(Bytes)
    BY <2>1, ConcatProperties
  <2> QED
    BY <1>1, <2>1, <2>2, DataForm
<1>3. FilePart' /\ StatsPart'
  BY <1>2, StatsKept DEF WriteFile, FileInv, FilePart, handle
<1>4. ThreadPart'
  BY DEF WriteFile, FileInv, ThreadPart, thread
<1> QED
  BY <1>3, <1>4 DEF FileInv

LEMMA NextFileInv == FileInv /\ [Next]_vars => FileInv'
<1> SUFFICES ASSUME FileInv, [Next]_vars PROVE FileInv'
  OBVIOUS
<1>1. ASSUME NEW t \in Threads, NEW h \in Handles, NEW c \in Calls, Start(t, h, c)
      PROVE  FileInv'
  BY <1>1, StartTyped
<1>2. ASSUME NEW t \in Threads,
             Acquire(t) \/ Simulate(t) \/ InjectFailure(t) \/ InjectNothing(t)
      PROVE  FileInv'
  BY <1>2, AcquireTyped, SimulateTyped, InjectTyped
<1>3. ASSUME NEW t \in Threads, Operation(t) PROVE FileInv'
  BY <1>3, OperationTyped
<1>4. ASSUME NEW t \in Threads, Record(t) \/ Release(t) PROVE FileInv'
  BY <1>4, RecordTyped, ReleaseTyped
<1>5. ASSUME NEW c \in Calls, c.op = "Write", WriteFile(c.b) PROVE FileInv'
  BY <1>5, CallForm, WriteFileTyped
<1>6. CASE UNCHANGED vars
  BY <1>6 DEF vars, thread, handle, FileInv, FilePart, StatsPart, ThreadPart
<1> QED
  BY <1>1, <1>2, <1>3, <1>4, <1>5, <1>6 DEF Next, Done

\* The bytes of a file can always be allocated and no position is negative, even
\* where off + len(b) or a Seek overflows and whatever the interleaving of the
\* handles; a handle's Stats never count more failures than calls.
THEOREM PositionsAndBytes == Spec => []TypeOK
<1>1. Init => FileInv
  BY InitFileInv
<1>2. FileInv /\ [Next]_vars => FileInv'
  BY NextFileInv
<1>3. FileInv => TypeOK
  BY FileInvTypeOK
<1> QED
  BY <1>1, <1>2, <1>3, PTL DEF Spec

-----------------------------------------------------------------------------
(* What the Stats of a handle count *)

\* An answer whose bytes are those that the caller is given, and none if the call
\* has panicked; p is where its thread is in the call c.
Given(p, c, a) ==
  p \in {"record", "release"} =>
    /\ a.err = "panic" => a.n = 0
    /\ StatOp(c.op) = "Read" => a.n = Len(a.out)

\* The threads about to put the token of h back, one at most, and what that makes
\* of its Stats.
Ending(h) == {t \in Threads : on[t] = h /\ At(t, "release")}

Fits(h) ==
  \/ Ending(h) = {} /\ stats[h] = tally[h]
  \/ \E t \in Threads :
       Ending(h) = {t} /\ stats[h] = Counted(tally[h], StatOp(call[t].op), answer[t])

CountInv ==
  /\ DOMAIN tally = Handles
  /\ \A t \in Threads : Given(pc[t], call[t], answer[t])
  /\ \A h \in Handles : Fits(h)

LEMMA FitsForm == (\A h \in Handles : Fits(h)) <=> StatsAddUp
  BY DEF Fits, Ending, StatsAddUp

LEMMA FailureGiven ==
  ASSUME NEW e, NEW c, NEW p
  PROVE  Given(p, c, Failure(e))
<1>1. Failure(e).n = 0 /\ Failure(e).out = <<>> /\ Len(<<>>) = 0
  BY DEF Failure, Answer
<1> QED
  BY <1>1 DEF Given

LEMMA NotReadGiven ==
  ASSUME NEW e, NEW n, NEW out, NEW c, NEW p, e # "panic", c.op \notin {"Read", "ReadAt"}
  PROVE  Given(p, c, Answer(e, n, out))
  BY DEF Given, Answer, StatOp

\* The callers of h know of all its calls but the one in Ending(h): t is in no step
\* that changes that.
LEMMA UncountedStep ==
  ASSUME FileInv, CountInv, NEW t \in Threads, pc[t] # "release",
         NEW l, Goto(t, l), l # "release",
         UNCHANGED <<stats, tally>>,
         \A u \in Threads \ {t} : on'[u] = on[u] /\ call'[u] = call[u] /\ answer'[u] = answer[u],
         Given(l, call'[t], answer'[t])
  PROVE  CountInv'
<1>1. pc'[t] = l /\ \A u \in Threads \ {t} : pc'[u] = pc[u]
  BY DEF FileInv, ThreadPart, Goto
<1>2. \A h \in Handles : Ending(h)' = Ending(h) /\ t \notin Ending(h)
  BY <1>1 DEF Ending, At
<1>3. ASSUME NEW h \in Handles PROVE Fits(h)'
  <2>1. CASE Ending(h) = {} /\ stats[h] = tally[h]
    BY <1>2, <2>1 DEF Fits
  <2>2. ASSUME NEW u \in Threads, Ending(h) = {u},
               stats[h] = Counted(tally[h], StatOp(call[u].op), answer[u])
        PROVE  Fits(h)'
    <3>1. u # t
      BY <1>2, <2>2
    <3>2. stats'[h] = Counted(tally'[h], StatOp(call'[u].op), answer'[u])
      BY <2>2, <3>1
    <3> QED
      BY <1>2, <2>2, <3>2 DEF Fits
  <2> QED
    BY <2>1, <2>2 DEF CountInv, Fits
<1>4. \A u \in Threads : Given(pc'[u], call'[u], answer'[u])
  BY <1>1 DEF CountInv
<1> QED
  BY <1>3, <1>4 DEF CountInv

\* The call of t is answered, or goes on.
LEMMA AnsweredGiven ==
  ASSUME FileInv, CountInv, NEW t \in Threads, pc[t] # "release", UNCHANGED <<stats, tally, on, call>>,
         \/ \E a : Return(t, a) /\ Given("record", call[t], a)
         \/ \E l \in Labels \ {"record", "release"} : Goto(t, l) /\ UNCHANGED answer
  PROVE  CountInv'
<1>1. CASE \E a : Return(t, a) /\ Given("record", call[t], a)
  <2>1. PICK a : Return(t, a) /\ Given("record", call[t], a)
    BY <1>1
  <2>2. /\ Goto(t, "record") /\ answer'[t] = a
        /\ \A u \in Threads \ {t} : answer'[u] = answer[u]
    BY <2>1 DEF Return, FileInv, ThreadPart
  <2> QED
    BY <2>1, <2>2, UncountedStep
<1>2. CASE \E l \in Labels \ {"record", "release"} : Goto(t, l) /\ UNCHANGED answer
  <2>1. PICK l \in Labels \ {"record", "release"} : Goto(t, l) /\ UNCHANGED answer
    BY <1>2
  <2>2. Given(l, call'[t], answer'[t])
    BY <2>1 DEF Given
  <2> QED
    BY <2>1, <2>2, UncountedStep
<1> QED
  BY <1>1, <1>2

LEMMA BeforeBodyCounts ==
  ASSUME FileInv, CountInv, NEW t \in Threads,
         Acquire(t) \/ Simulate(t) \/ InjectFailure(t) \/ InjectNothing(t)
  PROVE  CountInv'
<1>1. pc[t] # "release" /\ UNCHANGED <<stats, tally, on, call>>
  BY DEF Acquire, Simulate, InjectFailure, InjectNothing, At
<1>2. \/ \E e : Return(t, Failure(e))
      \/ \E l \in Labels \ {"record", "release"} : Goto(t, l) /\ UNCHANGED answer
  BY DEF Acquire, Simulate, InjectFailure, InjectNothing, Labels
<1> QED
  BY <1>1, <1>2, FailureGiven, AnsweredGiven

LEMMA OperationCounts ==
  ASSUME FileInv, CountInv, NEW t \in Threads, Operation(t)
  PROVE  CountInv'
<1>1. pc[t] # "release" /\ UNCHANGED <<stats, tally, on, call>>
  BY DEF Operation, Read, ReadAt, Write, AppendLoad, AppendStore, WriteAtLoad, WriteAtExtend,
         WriteAtCopy, Seek, ReadDir, Stat, Close, Body, At
<1>2. CASE Read(t) \/ ReadAt(t)
  <2>1. \/ \E e : Return(t, Failure(e))
        \/ \E e \in {"nil", "EOF"} : \E out : Return(t, Answer(e, Len(out), out))
    BY <1>2 DEF Read, ReadAt
  <2>2. ASSUME NEW e \in {"nil", "EOF"}, NEW out
        PROVE  Given("record", call[t], Answer(e, Len(out), out))
    BY DEF Given, Answer
  <2> QED
    BY <1>1, <2>1, <2>2, FailureGiven, AnsweredGiven
<1>3. CASE \/ Write(t) \/ AppendLoad(t) \/ WriteAtLoad(t) \/ WriteAtExtend(t)
           \/ Seek(t) \/ ReadDir(t) \/ Stat(t) \/ Close(t) \/ AppendStore(t) \/ WriteAtCopy(t)
  <2>1. call[t].op \notin {"Read", "ReadAt"}
    BY <1>3 DEF Write, AppendLoad, WriteAtLoad, WriteAtExtend, Seek, ReadDir, Stat, Close,
                AppendStore, WriteAtCopy, Body, At, FileInv, ThreadPart, Settled
  <2>2. \/ \E e : Return(t, Failure(e))
        \/ \E e \in {"nil", "EOF"} : \E n, out : Return(t, Answer(e, n, out))
        \/ \E l \in Labels \ {"record", "release"} : Goto(t, l) /\ UNCHANGED answer
    <3>1. CASE Write(t) \/ AppendLoad(t) \/ AppendStore(t)
      BY <3>1 DEF Write, AppendLoad, AppendStore, Labels
    <3>2. CASE WriteAtLoad(t) \/ WriteAtExtend(t) \/ WriteAtCopy(t)
      BY <3>2 DEF WriteAtLoad, WriteAtExtend, WriteAtCopy, Labels
    <3>3. CASE Seek(t) \/ Stat(t) \/ Close(t)
      BY <3>3 DEF Seek, Stat, Close
    <3>4. CASE ReadDir(t)
      BY <3>4 DEF ReadDir
    <3> QED
      BY <1>3, <3>1, <3>2, <3>3, <3>4
  <2>3. ASSUME NEW e \in {"nil", "EOF"}, NEW n, NEW out
        PROVE  Given("record", call[t], Answer(e, n, out))
    BY <2>1, NotReadGiven
  <2> QED
    BY <1>1, <2>2, <2>3, FailureGiven, AnsweredGiven
<1> QED
  BY <1>2, <1>3 DEF Operation

LEMMA StartCounts ==
  ASSUME FileInv, CountInv, NEW t \in Threads, NEW h \in Handles, NEW c \in Calls, Start(t, h, c)
  PROVE  CountInv'
<1>1. /\ pc[t] # "release" /\ Goto(t, "acquire") /\ UNCHANGED <<stats, tally>>
      /\ \A u \in Threads \ {t} : on'[u] = on[u] /\ call'[u] = call[u] /\ answer'[u] = answer[u]
  BY DEF Start, At, FileInv, ThreadPart
<1>2. Given("acquire", call'[t], answer'[t])
  BY DEF Given
<1> QED
  BY <1>1, <1>2, UncountedStep

\* What is recorded is what the caller will be told.
LEMMA RecordedIsCounted ==
  ASSUME NEW s \in Tallies, NEW op \in StatOps, NEW a, a.n \in Positions,
         a.err = "panic" => a.n = 0,
         op = "Read" => a.n = Len(a.out)
  PROVE  Recorded(s, op, a) = Counted(s, op, a)
<1>1. a.n \in Nat
  BY DEF Positions
<1> PICK k \in Nat : k = (IF a.err = "panic" THEN 0 ELSE a.n) /\ k = a.n
  BY <1>1
<1> PICK r : r = Recorded(s, op, a)
  OBVIOUS
<1>2. /\ s.total \in [StatOps -> Nat] /\ s.failure \in [StatOps -> Nat]
      /\ s.bytesRead \in Nat /\ s.bytesWritten \in Nat
  BY DEF Tallies
<1>3. r =
        [total        |-> [s.total EXCEPT ![op] = @ + 1],
         failure      |-> [s.failure EXCEPT ![op] = IF a.err \in {"nil", "panic"} THEN @ ELSE @ + 1],
         bytesRead    |-> IF op = "Read" THEN s.bytesRead + k ELSE s.bytesRead,
         bytesWritten |-> IF op = "Write" THEN s.bytesWritten + k ELSE s.bytesWritten]
  BY DEF Recorded, Tallies
<1>4. [s.failure EXCEPT ![op] = IF a.err \in {"nil", "panic"} THEN @ ELSE @ + 1] =
        [s.failure EXCEPT ![op] = @ + IF a.err \in {"nil", "panic"} THEN 0 ELSE 1]
  BY <1>2
<1>5. /\ (IF op = "Read" THEN s.bytesRead + k ELSE s.bytesRead) =
           s.bytesRead + IF op = "Read" THEN Len(a.out) ELSE 0
      /\ (IF op = "Write" THEN s.bytesWritten + k ELSE s.bytesWritten) =
           s.bytesWritten + IF op = "Write" THEN a.n ELSE 0
  BY <1>2
<1> QED
  BY <1>3, <1>4, <1>5 DEF Counted

\* The thread that has the token is the only one to record a call of its handle.
LEMMA RecordCounts ==
  ASSUME FileInv, TokenInv, CountInv, NEW t \in Threads, Record(t)
  PROVE  CountInv'
<1> PICK h \in Handles : h = on[t]
  BY DEF FileInv, ThreadPart
<1> PICK op : op = StatOp(call[t].op)
  OBVIOUS
<1>1. /\ pc[t] = "record" /\ pc'[t] = "release" /\ \A u \in Threads \ {t} : pc'[u] = pc[u]
      /\ stats' = [stats EXCEPT ![h] = Recorded(@, op, answer[t])]
      /\ UNCHANGED <<tally, on, call, answer>>
  BY DEF Record, At, Goto, FileInv, ThreadPart
<1>2. op \in StatOps
  <2>1. call[t] \in Calls
    BY <1>1, CallUnderWay DEF FileInv
  <2> QED
    BY <2>1, CallForm DEF StatOp, StatOps
<1>3. Ending(h) = {}
  <2>1. ASSUME NEW u \in Ending(h) PROVE FALSE
    <3>1. u \in Threads /\ on[u] = h /\ pc[u] = "release"
      BY <2>1 DEF Ending, At
    <3>2. ticket[h] = u /\ ticket[h] = t
      BY <1>1, <3>1 DEF TokenInv, Outside
    <3> QED
      BY <1>1, <3>1, <3>2
  <2> QED
    BY <2>1
<1>4. stats[h] = tally[h] /\ stats[h] \in Tallies
  BY <1>3 DEF CountInv, Fits, FileInv, StatsPart
<1>5. stats'[h] = Counted(tally[h], op, answer[t])
  <2>1. stats'[h] = Recorded(stats[h], op, answer[t])
    BY <1>1 DEF FileInv, StatsPart
  <2>2. /\ answer[t].n \in Positions
        /\ answer[t].err = "panic" => answer[t].n = 0
        /\ op = "Read" => answer[t].n = Len(answer[t].out)
    BY <1>1 DEF FileInv, ThreadPart, CountInv, Given
  <2>3. Recorded(stats[h], op, answer[t]) = Counted(stats[h], op, answer[t])
    BY <1>2, <1>4, <2>2, RecordedIsCounted
  <2> QED
    BY <1>4, <2>1, <2>3
<1>6. Ending(h)' = {t} /\ \A k \in Handles \ {h} : Ending(k)' = Ending(k)
  BY <1>1, <1>3 DEF Ending, At
<1>7. ASSUME NEW k \in Handles PROVE Fits(k)'
  <2>1. CASE k = h
    BY <1>1, <1>5, <1>6, <2>1 DEF Fits
  <2>2. CASE k # h
    <3>1. Ending(k)' = Ending(k) /\ stats'[k] = stats[k]
      BY <1>1, <1>6, <2>2 DEF FileInv, StatsPart
    <3>2. Fits(k)
      BY DEF CountInv
    <3> QED
      BY <1>1, <3>1, <3>2 DEF Fits
  <2> QED
    BY <2>1, <2>2
<1>8. \A u \in Threads : Given(pc'[u], call'[u], answer'[u])
  <2>1. Given("release", call[t], answer[t])
    BY <1>1 DEF CountInv, Given
  <2> QED
    BY <1>1, <2>1 DEF CountInv
<1> QED
  BY <1>1, <1>7, <1>8 DEF CountInv

\* Its caller is told when it puts the token back.
LEMMA ReleaseCounts ==
  ASSUME FileInv, CountInv, NEW t \in Threads, Release(t)
  PROVE  CountInv'
<1> PICK h \in Handles : h = on[t]
  BY DEF FileInv, ThreadPart
<1> PICK op : op = StatOp(call[t].op)
  OBVIOUS
<1>1. /\ pc[t] = "release" /\ pc'[t] = "idle" /\ UNCHANGED <<stats, on>>
      /\ tally' = [tally EXCEPT ![h] = Counted(@, op, answer[t])]
      /\ \A u \in Threads \ {t} :
           pc'[u] = pc[u] /\ call'[u] = call[u] /\ answer'[u] = answer[u]
  BY DEF Release, Leave, At, Goto, FileInv, ThreadPart
<1>2. t \in Ending(h)
  BY <1>1 DEF Ending, At
<1>3. Ending(h) = {t} /\ stats[h] = Counted(tally[h], op, answer[t])
  BY <1>2 DEF CountInv, Fits
<1>4. Ending(h)' = {} /\ \A k \in Handles \ {h} : Ending(k)' = Ending(k) /\ t \notin Ending(k)
  BY <1>1, <1>3 DEF Ending, At
<1>5. ASSUME NEW k \in Handles PROVE Fits(k)'
  <2>1. CASE k = h
    BY <1>1, <1>3, <1>4, <2>1 DEF Fits, CountInv
  <2>2. CASE k # h
    <3>1. Ending(k)' = Ending(k) /\ t \notin Ending(k) /\ tally'[k] = tally[k] /\ stats'[k] = stats[k]
      BY <1>1, <1>4, <2>2 DEF CountInv
    <3>2. CASE Ending(k) = {} /\ stats[k] = tally[k]
      BY <3>1, <3>2 DEF Fits
    <3>3. ASSUME NEW u \in Threads, Ending(k) = {u},
                 stats[k] = Counted(tally[k], StatOp(call[u].op), answer[u])
          PROVE  Fits(k)'
      <4>1. call'[u] = call[u] /\ answer'[u] = answer[u]
        BY <1>1, <3>1, <3>3
      <4> QED
        BY <3>1, <3>3, <4>1 DEF Fits
    <3> QED
      BY <3>2, <3>3 DEF CountInv, Fits
  <2> QED
    BY <2>1, <2>2
<1>6. \A u \in Threads : Given(pc'[u], call'[u], answer'[u])
  <2>1. Given("idle", call'[t], answer'[t])
    BY DEF Given
  <2> QED
    BY <1>1, <2>1 DEF CountInv
<1> QED
  BY <1>1, <1>5, <1>6 DEF CountInv

LEMMA NextCounts == FileInv /\ TokenInv /\ CountInv /\ [Next]_vars => CountInv'
<1> SUFFICES ASSUME FileInv, TokenInv, CountInv, [Next]_vars PROVE CountInv'
  OBVIOUS
<1>1. ASSUME NEW t \in Threads, NEW h \in Handles, NEW c \in Calls, Start(t, h, c)
      PROVE  CountInv'
  BY <1>1, StartCounts
<1>2. ASSUME NEW t \in Threads,
             \/ Acquire(t) \/ Simulate(t) \/ InjectFailure(t) \/ InjectNothing(t)
             \/ Operation(t)
      PROVE  CountInv'
  BY <1>2, BeforeBodyCounts, OperationCounts
<1>3. ASSUME NEW t \in Threads, Record(t) \/ Release(t) PROVE CountInv'
  BY <1>3, RecordCounts, ReleaseCounts
<1>4. CASE (\E c \in Calls : WriteFile(c.b)) \/ UNCHANGED vars
  <2>1. UNCHANGED <<stats, tally, pc, on, call, answer>>
    BY <1>4 DEF WriteFile, vars, thread
  <2>2. ASSUME NEW h \in Handles PROVE Fits(h)'
    <3>1. Ending(h)' = Ending(h) /\ Fits(h)
      BY <2>1 DEF Ending, At, CountInv
    <3> QED
      BY <2>1, <3>1 DEF Fits
  <2> QED
    BY <2>1, <2>2 DEF CountInv
<1> QED
  BY <1>1, <1>2, <1>3, <1>4 DEF Next, Done

\* For any threads, handles and calls, and without any care of the callers: the
\* Stats of a handle are the outcomes, errors and bytes that its callers have been
\* told, but for the one call that is about to put the token back.
THEOREM StatsAreTold == Spec => []StatsAddUp
<1>1. Init => FileInv /\ TokenInv /\ CountInv
  <2>1. Init => CountInv
    BY DEF Init, CountInv, Fits, Ending, At, Given
  <2> QED
    BY <2>1, InitFileInv, InitTokenInv
<1>2. FileInv /\ TokenInv /\ CountInv /\ [Next]_vars => (FileInv /\ TokenInv /\ CountInv)'
  BY NextFileInv, NextTokenInv, NextCounts
<1>3. CountInv => StatsAddUp
  BY FitsForm DEF CountInv
<1> QED
  BY <1>1, <1>2, <1>3, PTL DEF Spec

-----------------------------------------------------------------------------
(* The calls of synchronized callers, as AtomicFile says them *)

\* An offset in the file and a length fit in an int together, as they do where
\* int has 64 bits and no slice has 2^62 bytes.
RoomyInts == 2 * MaxLen <= MaxInt

\* Past the checks of its handle, and not yet answered.
Working == {"simulate", "inject", "body", "append", "extend", "copy"}

\* What WriteAt finds when it copies c's bytes: the file d as it was, where they
\* fit or where their offset is behind the end, or the file extended for them.
Prepared(e, d, c) ==
  \/ e = d /\ (c.off + Len(c.b) <= Len(d) \/ c.off > Len(d))
  \/ e = Extended(d, c.off + Len(c.b)) /\ c.off + Len(c.b) > Len(d)

\* How far the call of t has come: whether it has taken effect, and what it has
\* made sure of that its operation relies on.
Progress(t) ==
  /\ pc[t] = "idle" <=> call[t] = NoCall
  /\ answer[t] # None <=> pc[t] \in {"record", "release"}
  /\ pc[t] \in Working => ~closed[on[t]] /\ (call[t].op = "ReadDir" => dir)
  /\ pc[t] \in Working \ {"simulate"} => (call[t].op = "WriteAt" => mode # "readOnly")
  /\ pc[t] = "append" => mode = "append" /\ loaded[t] = data
  /\ pc[t] = "extend" => loaded[t] = data /\ call[t].off + Len(call[t].b) > Len(data)
  /\ pc[t] = "copy" => Prepared(data, loaded[t], call[t])

\* The calls under way are all on one handle, so that its token keeps them apart.
OneHandle == \A t, u \in Threads : pc[t] # "idle" /\ pc[u] # "idle" => on[t] = on[u]

AtomicInv == FileInv /\ TokenInv /\ OneHandle /\ \A t \in Threads : Progress(t)

\* No other thread is past the receive from its handle's channel.
Alone(t) == \A u \in Threads \ {t} : pc[u] \in Outside

\* The token keeps the calls of synchronized callers apart.
LEMMA InsideAlone ==
  ASSUME TokenInv, OneHandle, NEW t \in Threads, pc[t] \notin Outside
  PROVE  Alone(t)
<1> SUFFICES ASSUME NEW u \in Threads, pc[u] \notin Outside PROVE u = t
  BY DEF Alone
<1>1. on[u] = on[t] /\ on[t] \in Handles
  BY DEF OneHandle, TokenInv, Outside
<1>2. ticket[on[t]] = t /\ ticket[on[t]] = u
  BY <1>1 DEF TokenInv
<1> QED
  BY <1>2

\* An answer is told from none by its error.
LEMMA AnswerSome ==
  /\ \A e, n, out : e # "none" => Answer(e, n, out) # None
  /\ \A e, n, out : /\ Answer(e, n, out).err = e /\ Answer(e, n, out).n = n
                    /\ Answer(e, n, out).out = out
  /\ \A e : Failure(e) = Answer(e, 0, <<>>)
  BY DEF Answer, None, Failure

\* What callers may take for the bytes of the file.
LEMMA StableForm ==
  /\ (\A t \in Threads : pc[t] # "copy") => StableData = data
  /\ \A t \in Threads : Alone(t) => StableData = IF pc[t] = "copy" THEN loaded[t] ELSE data
<1>1. (\A t \in Threads : pc[t] # "copy") => StableData = data
  BY DEF StableData, At
<1>2. ASSUME NEW t \in Threads, Alone(t)
      PROVE  StableData = IF pc[t] = "copy" THEN loaded[t] ELSE data
  <2>1. \A u \in Threads : pc[u] = "copy" => u = t
    BY <1>2 DEF Alone, Outside
  <2>2. CASE pc[t] = "copy"
    <3>1. (CHOOSE u \in Threads : pc[u] = "copy") = t
      BY <2>1, <2>2
    <3> QED
      BY <2>2, <3>1 DEF StableData, At
  <2>3. CASE pc[t] # "copy"
    BY <1>1, <2>1, <2>3
  <2> QED
    BY <2>2, <2>3
<1> QED
  BY <1>1, <1>2

\* The same after a step.
LEMMA StableFormNext ==
  /\ (\A t \in Threads : pc'[t] # "copy") => StableData' = data'
  /\ \A t \in Threads : Alone(t)' => StableData' = IF pc'[t] = "copy" THEN loaded'[t] ELSE data'
<1>1. (/\ (\A t \in Threads : pc[t] # "copy") => StableData = data
       /\ \A t \in Threads : Alone(t) => StableData = IF pc[t] = "copy" THEN loaded[t] ELSE data)'
  BY StableForm, PTL
<1> QED
  BY <1>1

\* The two sides of a step of a thread that has the token.
LEMMA StableInside ==
  ASSUME AtomicInv, NEW t \in Threads, pc[t] \notin Outside, NEW p, Goto(t, p)
  PROVE  /\ StableData = IF pc[t] = "copy" THEN loaded[t] ELSE data
         /\ StableData' = IF p = "copy" THEN loaded'[t] ELSE data'
         /\ Alone(t) /\ Alone(t)'
<1>1. Alone(t)
  BY InsideAlone DEF AtomicInv
<1>2. pc'[t] = p /\ \A u \in Threads \ {t} : pc'[u] = pc[u]
  BY DEF Goto, AtomicInv, TokenInv
<1>3. Alone(t)'
  BY <1>1, <1>2 DEF Alone, Outside
<1> QED
  BY <1>1, <1>2, <1>3, StableForm, StableFormNext

\* Elsewhere nothing happens to the bytes.
LEMMA StableOutside ==
  ASSUME AtomicInv, NEW t \in Threads, pc[t] \in Outside, NEW p, p # "copy", Goto(t, p),
         UNCHANGED <<data, loaded>>
  PROVE  StableData' = StableData
<1>1. \A u \in Threads : pc'[u] = "copy" <=> pc[u] = "copy"
  BY DEF Goto, AtomicInv, TokenInv, Outside
<1>2. CASE \A u \in Threads : pc[u] # "copy"
  BY <1>1, <1>2, StableForm, StableFormNext
<1>3. ASSUME NEW u \in Threads, pc[u] = "copy" PROVE StableData' = StableData
  <2>1. Alone(u) /\ u # t
    BY <1>3, InsideAlone DEF AtomicInv, Outside
  <2>2. CASE p \in Outside
    <3>1. Alone(u)'
      BY <2>1, <2>2 DEF Alone, Goto, AtomicInv, TokenInv
    <3> QED
      BY <1>1, <1>3, <2>1, <3>1, StableForm, StableFormNext
  <2>3. CASE p \notin Outside
    <3>1. \A v \in Threads : pc[v] = "copy" => v = u
      BY <2>1 DEF Alone, Outside
    <3>2. (CHOOSE v \in Threads : pc[v] = "copy") = u /\ (CHOOSE v \in Threads : pc'[v] = "copy") = u
      BY <1>1, <1>3, <3>1
    <3> QED
      BY <1>1, <1>3, <3>2 DEF StableData, At
  <2> QED
    BY <2>2, <2>3
<1> QED
  BY <1>2, <1>3

\* A call that is answered has taken effect.
LEMMA ProgressReturns ==
  ASSUME AtomicInv, NEW t \in Threads, Alone(t), pc[t] # "idle",
         NEW a, a # None, Return(t, a), UNCHANGED <<on, call>>
  PROVE  \A u \in Threads : Progress(u)'
<1>1. pc \in [Threads -> Labels] /\ answer = [u \in Threads |-> answer[u]]
  BY DEF AtomicInv, TokenInv, FileInv, ThreadPart
<1>2. /\ pc' = [pc EXCEPT ![t] = "record"] /\ answer' = [answer EXCEPT ![t] = a]
  BY DEF Return, Goto
<1>3. Progress(t)'
  BY <1>1, <1>2 DEF Progress, AtomicInv, Working
<1>4. ASSUME NEW u \in Threads, u # t PROVE Progress(u)'
  <2>1. pc'[u] = pc[u] /\ pc[u] \in Outside /\ answer'[u] = answer[u] /\ call'[u] = call[u]
    BY <1>1, <1>2, <1>4 DEF Alone
  <2> QED
    BY <2>1 DEF Progress, AtomicInv, Working, Outside
<1> QED
  BY <1>3, <1>4

\* A call that goes on.
LEMMA ProgressGoes ==
  ASSUME AtomicInv, NEW t \in Threads, Alone(t), pc[t] \in {"acquire"} \cup Working,
         NEW p \in Working, Goto(t, p), UNCHANGED <<on, call, answer>>,
         ~closed'[on[t]], call[t].op = "ReadDir" => dir',
         p # "simulate" /\ call[t].op = "WriteAt" => mode' # "readOnly",
         p = "append" => mode' = "append" /\ loaded'[t] = data',
         p = "extend" => loaded'[t] = data' /\ call[t].off + Len(call[t].b) > Len(data'),
         p = "copy" => Prepared(data', loaded'[t], call[t])
  PROVE  \A u \in Threads : Progress(u)'
<1>1. pc \in [Threads -> Labels]
  BY DEF AtomicInv, TokenInv
<1>2. pc' = [pc EXCEPT ![t] = p]
  BY DEF Goto
<1>3. Progress(t)'
  <2>1. pc'[t] = p /\ Progress(t)
    BY <1>1, <1>2 DEF AtomicInv
  <2> QED
    BY <2>1 DEF Progress, Working
<1>4. ASSUME NEW u \in Threads, u # t PROVE Progress(u)'
  <2>1. pc'[u] = pc[u] /\ pc[u] \in Outside /\ answer'[u] = answer[u] /\ call'[u] = call[u]
    BY <1>1, <1>2, <1>4 DEF Alone
  <2> QED
    BY <2>1 DEF Progress, AtomicInv, Working, Outside
<1> QED
  BY <1>3, <1>4

\* How a call takes effect.
LEMMA Takes ==
  ASSUME AtomicInv, NEW t \in Threads, pc[t] \in Working,
         NEW a, a # None, Return(t, a), UNCHANGED <<on, call>>,
         NEW c, c = call[t],
         \/ Atomic!Fail(t, c, a) \/ Atomic!Read(t, c, a) \/ Atomic!ReadAt(c, a)
         \/ Atomic!Write(t, c, a) \/ Atomic!WriteAt(c, a) \/ Atomic!Seek(t, c, a)
         \/ Atomic!ReadDir(t, c, a) \/ Atomic!Stat(c, a) \/ Atomic!Close(t, c, a)
  PROVE  Atomic!Take(t) /\ \A u \in Threads : Progress(u)'
<1>1. Progress(t) /\ answer = [u \in Threads |-> answer[u]]
  BY DEF AtomicInv, FileInv, ThreadPart
<1>2. call[t] # NoCall /\ answer[t] = None /\ ~closed[on[t]]
  BY <1>1 DEF Progress, Working
<1>3. answer' = [answer EXCEPT ![t] = a] /\ answer'[t] = a
  BY <1>1 DEF Return
<1>4. Atomic!Take(t)
  BY <1>2, <1>3 DEF Atomic!Take
<1>5. pc[t] # "idle" /\ pc[t] \notin Outside
  BY DEF Working, Outside
<1>6. Alone(t)
  BY <1>5, InsideAlone DEF AtomicInv
<1> QED
  BY <1>4, <1>5, <1>6, ProgressReturns

-----------------------------------------------------------------------------
(* The operations, as AtomicFile says them *)

\* The facts of an operation that answers in one step.
LEMMA AtomicBody ==
  ASSUME AtomicInv, NEW t \in Threads, NEW op, Body(t, op)
  PROVE  /\ pc[t] = "body" /\ pc[t] \in Working /\ pc[t] \notin Outside
         /\ call[t] \in Calls /\ call[t].op = op /\ on[t] \in Handles
         /\ ~closed[on[t]] /\ closed \in [Handles -> BOOLEAN]
         /\ op = "ReadDir" => dir
         /\ op = "WriteAt" => mode # "readOnly"
         /\ data \in Data /\ data \in Seq(Bytes) /\ Len(data) \in Nat /\ Len(data) <= MaxLen
         /\ position \in [Handles -> Positions] /\ offset \in [Handles -> 0 .. EntryCount]
         /\ MaxLen \in 0 .. MaxInt /\ MaxInt \in Nat /\ EntryCount \in 0 .. MaxInt
<1>1. pc[t] = "body" /\ call[t].op = op
  BY DEF Body, At
<1>2. pc[t] \in Working /\ pc[t] \notin Outside /\ pc[t] # "idle" /\ pc[t] # "simulate"
  BY <1>1 DEF Working, Outside
<1>3. call[t] \in Calls /\ on[t] \in Handles
  BY <1>2, CallUnderWay DEF AtomicInv, FileInv
<1>4. Progress(t)
  BY DEF AtomicInv
<1>5. ~closed[on[t]] /\ (op = "ReadDir" => dir) /\ (op = "WriteAt" => mode # "readOnly")
  BY <1>1, <1>2, <1>4 DEF Progress
<1>6. data \in Data /\ position \in [Handles -> Positions] /\ offset \in [Handles -> 0 .. EntryCount]
      /\ closed \in [Handles -> BOOLEAN]
  BY DEF AtomicInv, FileInv, FilePart
<1>7. data \in Seq(Bytes) /\ Len(data) \in Nat /\ Len(data) <= MaxLen
  BY <1>6, DataForm, LenProperties
<1> QED
  BY <1>1, <1>2, <1>3, <1>5, <1>6, <1>7, FileAssumption

\* A body that stores nothing but what it says leaves the bytes as they are.
LEMMA StableBody ==
  ASSUME AtomicInv, NEW t \in Threads, NEW op, Body(t, op), NEW p, p # "copy", Goto(t, p)
  PROVE  StableData = data /\ StableData' = data'
<1>1. pc[t] \notin Outside /\ pc[t] # "copy"
  BY AtomicBody
<1> QED
  BY <1>1, StableInside

\* An operation that fails.
LEMMA FailTakes ==
  ASSUME AtomicInv, NEW t \in Threads, pc[t] \in Working, NEW e, e # "none",
         Return(t, Failure(e)), StableData' = StableData,
         UNCHANGED <<dir, mode, position, offset, on, call>>,
         closed' = [closed EXCEPT ![on[t]] = (call[t].op = "Close" /\ e = "injected")],
         NEW c, c = call[t],
         \/ e = "injected"
         \/ e = "ErrPermission" /\ c.op \in {"Write", "WriteAt"} /\ mode = "readOnly"
         \/ e = "ErrNegativeOffset" /\ c.op \in {"ReadAt", "WriteAt"} /\ c.off < 0
         \/ e = "panic" /\ c.op \in {"Write", "WriteAt", "ReadDir"}
         \/ e = "ErrInvalid" /\ c.op = "Seek"
            /\ (c.whence = "other" \/ Atomic!Origin(t, c) + c.off \notin Positions)
  PROVE  Atomic!Take(t) /\ \A u \in Threads : Progress(u)'
<1> PICK a : a = Failure(e)
  OBVIOUS
<1>1. a # None /\ a.err = e /\ a.n = 0 /\ a.out = <<>>
  BY AnswerSome
<1>2. Atomic!Fail(t, c, a)
  BY <1>1 DEF Atomic!Fail, Atomic!file
<1> QED
  BY <1>1, <1>2, Takes

\* Only the handle of an injected Close changes when a call fails.
LEMMA StillOpen ==
  ASSUME AtomicInv, NEW t \in Threads, pc[t] \in Working, NEW e, e # "injected"
  PROVE  closed = [closed EXCEPT ![on[t]] = (call[t].op = "Close" /\ e = "injected")]
<1>1. Progress(t) /\ closed \in [Handles -> BOOLEAN]
  BY DEF AtomicInv, FileInv, FilePart
<1>2. closed[on[t]] = FALSE /\ on[t] \in Handles
  BY <1>1 DEF Progress, AtomicInv, TokenInv
<1>3. (call[t].op = "Close" /\ e = "injected") = FALSE
  OBVIOUS
<1> QED
  BY <1>1, <1>2, <1>3

\* Out is d from its byte "from" on, n bytes or what there is.
CopiedOut(out, d, from, n) ==
  /\ Len(out) \in Nat /\ Len(out) <= n /\ from + Len(out) <= Len(d)
  /\ Len(out) = n \/ from + Len(out) = Len(d)
  /\ \A i \in 1 .. Len(out) : out[i] = d[from + i]

\* What copy(b, d[from:]) puts in b, byte by byte.
LEMMA CopyOutIs ==
  ASSUME NEW d \in Data, NEW from \in Nat, from < Len(d), NEW n \in Nat
  PROVE  CopiedOut(CopyOut(d, from, n), d, from, n)
<1>1. d \in Seq(Bytes) /\ Len(d) \in Nat
  BY DataForm, LenProperties
<1> PICK m \in Nat : m = Len(d)
  BY <1>1
<1> PICK to : to = AtMost(from + n, m)
  OBVIOUS
<1>2. from < m /\ to = IF from + n < m THEN from + n ELSE m
  BY DEF AtMost
<1>3. /\ to - from \in Nat /\ to - from <= n /\ from + (to - from) <= m
      /\ to - from = n \/ from + (to - from) = m
  BY <1>2
<1>4. /\ from + 1 \in 1 .. m + 1 /\ to \in (from + 1) - 1 .. m
      /\ to - (from + 1) + 1 = to - from
  BY <1>2
<1>5. \A i \in 1 .. to - from : from + 1 + i - 1 = from + i
  BY <1>2
<1>6. \A i \in from + 1 .. to : d[i] \in Bytes
  <2> SUFFICES ASSUME NEW i \in from + 1 .. to PROVE d[i] \in Bytes
    OBVIOUS
  <2>1. i \in 1 .. Len(d)
    BY <1>2
  <2> QED
    BY <1>1, <2>1, ElementOfSeq
<1> PICK s : s = SubSeq(d, from + 1, to)
  OBVIOUS
<1>7. Len(s) = to - from /\ \A i \in 1 .. to - from : s[i] = d[from + 1 + i - 1]
  <2>1. /\ Len(s) = to - (from + 1) + 1
        /\ \A i \in 1 .. to - (from + 1) + 1 : s[i] = d[from + 1 + i - 1]
    BY <1>1, <1>4, <1>6, SubSeqProperties
  <2> QED
    BY <1>4, <2>1
<1>8. s = CopyOut(d, from, n)
  BY DEF CopyOut
<1>9. CopiedOut(s, d, from, n)
  BY <1>3, <1>5, <1>7, ZenonT(30) DEF CopiedOut
<1> QED
  BY <1>8, <1>9

\* The answer of a Read or ReadAt that is not at the end.
LEMMA ReadsForm ==
  ASSUME NEW d \in Data, StableData = d, NEW p \in Nat, NEW n \in Nat,
         NEW out, CopiedOut(out, d, p, n), NEW a, a.n = Len(out), a.out = out
  PROVE  /\ Atomic!Reads(a, p, n) /\ a.n \in Nat
         /\ a.n = n \/ p + a.n >= Len(StableData)
<1>1. Len(d) \in Nat
  BY DataForm, LenProperties
<1> QED
  BY <1>1 DEF Atomic!Reads, CopiedOut

\* Read goes on behind what it has read.
LEMMA ReadTakes ==
  ASSUME AtomicInv, NEW t \in Threads, Read(t)
  PROVE  Atomic!Take(t) /\ \A u \in Threads : Progress(u)'
<1> PICK c, h : c = call[t] /\ h = on[t]
  OBVIOUS
<1> PICK out : out = CopyOut(data, position[h], c.len)
  OBVIOUS
<1>1. /\ Body(t, "Read") /\ UNCHANGED <<data, dir, mode, offset, closed, on, call>>
      /\ Goto(t, "record")
  BY DEF Read, Return
<1>2. /\ pc[t] \in Working /\ c \in Calls /\ c.op = "Read" /\ h \in Handles
      /\ data \in Data /\ Len(data) \in Nat /\ position \in [Handles -> Positions]
      /\ MaxInt \in Nat
  BY <1>1, AtomicBody
<1>3. StableData = data /\ StableData' = data
  BY <1>1, StableBody
<1>4. c.len \in Nat /\ position[h] \in Nat
  BY <1>2, CallForm, FileAssumption DEF Positions
<1>5. CASE position[h] >= Len(data)
  <2> PICK a : a = Failure("EOF")
    OBVIOUS
  <2>1. Return(t, a) /\ UNCHANGED position
    BY <1>5 DEF Read
  <2>2. a # None /\ a.err = "EOF" /\ a.n = 0 /\ a.out = <<>>
    BY AnswerSome
  <2>3. position' = [position EXCEPT ![h] = @ + a.n]
    BY <1>2, <1>4, <2>1, <2>2
  <2>4. Atomic!Reads(a, position[h], c.len)
    BY <1>4, <2>2 DEF Atomic!Reads
  <2>5. ~(position[h] < Len(data)) /\ position[h] + a.n >= Len(data)
    BY <1>2, <1>4, <1>5, <2>2
  <2>6. Atomic!Read(t, c, a)
    BY <1>1, <1>2, <1>3, <2>2, <2>3, <2>4, <2>5 DEF Atomic!Read, Atomic!file
  <2> QED
    BY <1>1, <1>2, <2>1, <2>2, <2>6, Takes
<1>6. CASE ~(position[h] >= Len(data))
  <2> PICK a : a = Answer("nil", Len(out), out)
    OBVIOUS
  <2>1. Return(t, a) /\ position' = [position EXCEPT ![h] = @ + Len(out)]
    BY <1>6 DEF Read
  <2>2. a # None /\ a.err = "nil" /\ a.n = Len(out) /\ a.out = out
    BY AnswerSome
  <2>3. position[h] < Len(data)
    BY <1>2, <1>4, <1>6
  <2>4. CopiedOut(out, data, position[h], c.len)
    BY <1>2, <1>4, <2>3, CopyOutIs
  <2>5. /\ Atomic!Reads(a, position[h], c.len)
        /\ a.n = c.len \/ position[h] + a.n >= Len(data)
    BY <1>2, <1>3, <1>4, <2>2, <2>4, ReadsForm
  <2>6. Atomic!Read(t, c, a)
    BY <1>1, <1>2, <1>3, <2>1, <2>2, <2>3, <2>5 DEF Atomic!Read, Atomic!file
  <2> QED
    BY <1>1, <1>2, <2>1, <2>2, <2>6, Takes
<1> QED
  BY <1>5, <1>6

\* Fewer bytes than asked for come with EOF.
LEMMA ReadAtTakes ==
  ASSUME AtomicInv, NEW t \in Threads, ReadAt(t)
  PROVE  Atomic!Take(t) /\ \A u \in Threads : Progress(u)'
<1> PICK c : c = call[t]
  OBVIOUS
<1> PICK out : out = CopyOut(data, c.off, c.len)
  OBVIOUS
<1>1. /\ Body(t, "ReadAt") /\ UNCHANGED <<data, dir, mode, position, offset, closed, on, call>>
      /\ Goto(t, "record")
  BY DEF ReadAt, Return, handle
<1>2. /\ pc[t] \in Working /\ c \in Calls /\ c.op = "ReadAt"
      /\ data \in Data /\ Len(data) \in Nat /\ MaxInt \in Nat
  BY <1>1, AtomicBody
<1>3. StableData = data /\ StableData' = data
  BY <1>1, StableBody
<1>4. c.len \in Nat /\ c.off \in Int
  BY <1>2, CallForm, FileAssumption DEF Ints
<1>5. UNCHANGED <<Atomic!file, Atomic!handles>>
  BY <1>1, <1>3 DEF Atomic!file, Atomic!handles
<1>6. CASE c.off < 0
  <2>1. Return(t, Failure("ErrNegativeOffset"))
    BY <1>6 DEF ReadAt
  <2> QED
    BY <1>1, <1>2, <1>3, <1>6, <2>1, StillOpen, FailTakes
<1>7. CASE ~(c.off < 0) /\ c.off >= Len(data)
  <2> PICK a : a = Failure("EOF")
    OBVIOUS
  <2>1. Return(t, a)
    BY <1>7 DEF ReadAt
  <2>2. a # None /\ a.err = "EOF" /\ a.n = 0 /\ a.out = <<>>
    BY AnswerSome
  <2>3. Atomic!Reads(a, c.off, c.len)
    BY <1>4, <2>2 DEF Atomic!Reads
  <2>4. c.off >= 0 /\ c.off + a.n >= Len(data)
    BY <1>2, <1>4, <1>7, <2>2
  <2>5. Atomic!ReadAt(c, a)
    BY <1>2, <1>3, <1>5, <2>2, <2>3, <2>4 DEF Atomic!ReadAt
  <2> QED
    BY <1>1, <1>2, <2>1, <2>2, <2>5, Takes
<1>8. CASE ~(c.off < 0) /\ ~(c.off >= Len(data))
  <2> PICK e : e = IF Len(out) < c.len THEN "EOF" ELSE "nil"
    OBVIOUS
  <2> PICK a : a = Answer(e, Len(out), out)
    OBVIOUS
  <2>1. Return(t, a)
    BY <1>8 DEF ReadAt
  <2>2. a # None /\ a.err = e /\ a.n = Len(out) /\ a.out = out
    BY AnswerSome
  <2>3. c.off \in Nat /\ c.off < Len(data)
    BY <1>2, <1>4, <1>8
  <2>4. CopiedOut(out, data, c.off, c.len)
    BY <1>2, <1>4, <2>3, CopyOutIs
  <2>5. /\ Atomic!Reads(a, c.off, c.len) /\ a.n \in Nat
        /\ a.n = c.len \/ c.off + a.n >= Len(data)
    BY <1>2, <1>3, <1>4, <2>2, <2>3, <2>4, ReadsForm
  <2>6. (a.err = "nil" => a.n = c.len) /\ (a.err = "EOF" => c.off + a.n >= Len(data))
    <3>1. e = "nil" => ~(a.n < c.len)
      BY <2>2
    <3>2. a.n <= c.len
      BY <2>5 DEF Atomic!Reads
    <3>3. e = "nil" => a.n = c.len
      BY <1>4, <2>5, <3>1, <3>2
    <3>4. e = "EOF" => a.n < c.len
      BY <2>2
    <3>5. e = "EOF" => a.n # c.len
      BY <1>4, <2>5, <3>4
    <3> QED
      BY <2>2, <2>5, <3>3, <3>5
  <2>7. Atomic!ReadAt(c, a)
    BY <1>2, <1>3, <1>5, <2>2, <2>3, <2>5, <2>6 DEF Atomic!ReadAt
  <2> QED
    BY <1>1, <1>2, <2>1, <2>2, <2>7, Takes
<1> QED
  BY <1>6, <1>7, <1>8

\* A Write that replaces the bytes, or may not write.
LEMMA WriteTakes ==
  ASSUME AtomicInv, NEW t \in Threads, Write(t)
  PROVE  Atomic!Take(t) /\ \A u \in Threads : Progress(u)'
<1> PICK c : c = call[t]
  OBVIOUS
<1>1. /\ Body(t, "Write") /\ UNCHANGED <<dir, mode, offset, closed, on, call>>
      /\ mode # "append" /\ Goto(t, "record")
  BY DEF Write, Return
<1>2. pc[t] \in Working /\ c \in Calls /\ c.op = "Write"
  BY <1>1, AtomicBody
<1>3. StableData = data /\ StableData' = data'
  BY <1>1, StableBody
<1>4. CASE mode = "readOnly"
  <2>1. Return(t, Failure("ErrPermission")) /\ UNCHANGED <<data, position>>
    BY <1>4 DEF Write
  <2> QED
    BY <1>1, <1>2, <1>3, <1>4, <2>1, StillOpen, FailTakes
<1>5. CASE mode # "readOnly"
  <2> PICK a : a = Answer("nil", Len(c.b), <<>>)
    OBVIOUS
  <2>1. /\ Return(t, a) /\ data' = c.b /\ position' = [position EXCEPT ![on[t]] = Len(c.b)]
    BY <1>5 DEF Write
  <2>2. a # None /\ a.err = "nil" /\ a.n = Len(c.b)
    BY AnswerSome
  <2>3. mode = "overwrite"
    <3>1. [dir |-> dir, mode |-> mode] \in [dir : BOOLEAN, mode : WriteModes]
      BY FileAssumption DEF AtomicInv, FileInv, FilePart
    <3> QED
      BY <1>1, <1>5, <3>1 DEF WriteModes
  <2>4. Atomic!Write(t, c, a)
    BY <1>1, <1>2, <1>3, <2>1, <2>2, <2>3 DEF Atomic!Write
  <2> QED
    BY <1>1, <1>2, <2>1, <2>2, <2>4, Takes
<1> QED
  BY <1>4, <1>5

\* The facts of the second and third steps of a write.
LEMMA AtomicLater ==
  ASSUME AtomicInv, NEW t \in Threads, pc[t] \in {"append", "extend", "copy"}
  PROVE  /\ pc[t] \in Working /\ pc[t] \notin Outside /\ Progress(t)
         /\ call[t] \in Calls /\ Settled(pc[t], call[t], loaded[t])
         /\ data \in Data /\ loaded[t] \in Data
<1>1. pc[t] \in Working /\ pc[t] \notin Outside /\ pc[t] # "idle"
  BY DEF Working, Outside
<1> QED
  BY <1>1, CallUnderWay DEF AtomicInv, FileInv, FilePart, ThreadPart

\* Append loads the slice, or panics.
LEMMA AppendLoadTakes ==
  ASSUME AtomicInv, NEW t \in Threads, AppendLoad(t)
  PROVE  /\ Atomic!Take(t) \/ UNCHANGED Atomic!vars
         /\ \A u \in Threads : Progress(u)'
<1>1. Body(t, "Write") /\ mode = "append" /\ UNCHANGED <<data, dir, mode, handle, on, call>>
  BY DEF AppendLoad
<1>2. /\ pc[t] \in Working /\ pc[t] \notin Outside /\ call[t].op = "Write" /\ ~closed[on[t]]
      /\ pc[t] # "copy"
  BY <1>1, AtomicBody
<1>3. CASE Return(t, Failure("panic"))
  <2>1. StableData' = StableData
    BY <1>1, <1>3, StableBody DEF Return
  <2> QED
    BY <1>1, <1>2, <1>3, <2>1, StillOpen, FailTakes DEF handle
<1>4. CASE /\ loaded' = [loaded EXCEPT ![t] = data] /\ Goto(t, "append") /\ UNCHANGED answer
  <2>1. StableData' = StableData /\ Alone(t)
    BY <1>1, <1>2, <1>4, StableInside
  <2>2. loaded'[t] = data'
    BY <1>1, <1>4 DEF AtomicInv, FileInv, ThreadPart
  <2>3. \A u \in Threads : Progress(u)'
    BY <1>1, <1>2, <1>4, <2>1, <2>2, ProgressGoes DEF handle, Working
  <2> QED
    BY <1>1, <1>4, <2>1, <2>3 DEF handle, Atomic!vars, Atomic!file, Atomic!handles
<1> QED
  BY <1>3, <1>4 DEF AppendLoad

\* What append returns is what was there and the new bytes.
LEMMA AppendStoreTakes ==
  ASSUME AtomicInv, NEW t \in Threads, AppendStore(t)
  PROVE  Atomic!Take(t) /\ \A u \in Threads : Progress(u)'
<1> PICK c : c = call[t]
  OBVIOUS
<1> PICK a : a = Answer("nil", Len(c.b), <<>>)
  OBVIOUS
<1>1. /\ pc[t] = "append" /\ data' = loaded[t] \o c.b /\ Return(t, a)
      /\ UNCHANGED <<dir, mode, position, offset, closed, on, call>>
  BY DEF AppendStore, At, handle
<1>2. /\ pc[t] \in Working /\ pc[t] \notin Outside /\ c.op = "Write"
      /\ mode = "append" /\ loaded[t] = data
  BY <1>1, AtomicLater DEF Progress, Settled
<1>3. StableData = data /\ StableData' = data'
  BY <1>1, <1>2, StableInside DEF Return
<1>4. a # None /\ a.err = "nil" /\ a.n = Len(c.b)
  BY AnswerSome
<1>5. Atomic!Write(t, c, a)
  BY <1>1, <1>2, <1>3, <1>4 DEF Atomic!Write
<1> QED
  BY <1>1, <1>2, <1>4, <1>5, Takes

\* An offset and a length that fit together, or overflow.
LEMMA NeededForm ==
  ASSUME RoomyInts, NEW d \in Data, NEW b \in Data, NEW off \in Ints, ~(off < 0),
         ~(Wrap(off + Len(b)) > MaxLen)
  PROVE  \/ Wrap(off + Len(b)) = off + Len(b)
         \/ off > Len(d) /\ ~(Wrap(off + Len(b)) > Len(d))
<1>1. /\ Len(b) \in Nat /\ Len(b) <= MaxLen /\ Len(d) \in Nat /\ Len(d) <= MaxLen
      /\ MaxLen \in 0 .. MaxInt /\ MaxInt \in Nat /\ off \in 0 .. MaxInt
  BY DataForm, LenProperties, FileAssumption DEF Ints
<1> PICK n \in Int : n = off + Len(b)
  BY <1>1
<1>2. n \in 0 .. 2 * MaxInt + 1
  BY <1>1
<1>3. CASE n \in Ints
  BY <1>3, WrapForm
<1>4. CASE n \notin Ints
  <2>1. n \in MaxInt + 1 .. 2 * MaxInt + 1
    BY <1>1, <1>2, <1>4 DEF Ints
  <2>2. Wrap(n) < 0 /\ Wrap(n) \in Int
    BY <1>1, <2>1, WrapForm DEF Ints
  <2>3. off > Len(d) /\ ~(Wrap(n) > Len(d))
    BY <1>1, <2>1, <2>2 DEF RoomyInts
  <2> QED
    BY <2>3
<1> QED
  BY <1>3, <1>4

\* WriteAt decides whether to extend the file.
LEMMA WriteAtLoadTakes ==
  ASSUME RoomyInts, AtomicInv, NEW t \in Threads, WriteAtLoad(t)
  PROVE  /\ Atomic!Take(t) \/ UNCHANGED Atomic!vars
         /\ \A u \in Threads : Progress(u)'
<1> PICK c : c = call[t]
  OBVIOUS
<1> PICK needed : needed = Wrap(c.off + Len(c.b))
  OBVIOUS
<1>1. Body(t, "WriteAt") /\ UNCHANGED <<data, dir, mode, handle, on, call>>
  BY DEF WriteAtLoad
<1>2. /\ pc[t] \in Working /\ pc[t] \notin Outside /\ c.op = "WriteAt" /\ ~closed[on[t]]
      /\ pc[t] # "copy" /\ mode # "readOnly" /\ c \in Calls /\ data \in Data /\ Len(data) \in Nat
  BY <1>1, AtomicBody
<1>3. c.off \in Ints /\ c.b \in Data /\ c.off \in Int /\ Len(c.b) \in Nat
  BY <1>2, CallForm, DataForm, LenProperties, FileAssumption DEF Ints
<1>4. CASE c.off < 0
  <2>1. Return(t, Failure("ErrNegativeOffset"))
    BY <1>4 DEF WriteAtLoad
  <2>2. StableData' = StableData
    BY <1>1, <2>1, StableBody DEF Return
  <2> QED
    BY <1>1, <1>2, <1>4, <2>1, <2>2, StillOpen, FailTakes DEF handle
<1>5. CASE ~(c.off < 0) /\ needed > MaxLen
  <2>1. Return(t, Failure("panic"))
    BY <1>5 DEF WriteAtLoad
  <2>2. StableData' = StableData
    BY <1>1, <2>1, StableBody DEF Return
  <2> QED
    BY <1>1, <1>2, <2>1, <2>2, StillOpen, FailTakes DEF handle
<1>6. CASE ~(c.off < 0) /\ ~(needed > MaxLen)
  <2> PICK p : p = IF needed > Len(data) THEN "extend" ELSE "copy"
    OBVIOUS
  <2>1. /\ loaded' = [loaded EXCEPT ![t] = data] /\ Goto(t, p) /\ UNCHANGED answer
    BY <1>6 DEF WriteAtLoad
  <2>2. loaded'[t] = data'
    BY <1>1, <2>1 DEF AtomicInv, FileInv, ThreadPart
  <2>3. StableData' = StableData /\ Alone(t)
    BY <1>1, <1>2, <2>1, <2>2, StableInside
  <2>4. needed = c.off + Len(c.b) \/ (c.off > Len(data) /\ ~(needed > Len(data)))
    BY <1>2, <1>3, <1>6, NeededForm
  <2>5. p = "extend" => c.off + Len(c.b) > Len(data')
    BY <1>1, <2>4
  <2>6. p = "copy" => Prepared(data', loaded'[t], c)
    <3>1. p = "copy" => c.off + Len(c.b) <= Len(data) \/ c.off > Len(data)
      BY <1>2, <1>3, <2>4
    <3> QED
      BY <1>1, <2>2, <3>1 DEF Prepared
  <2>7. p \in Working /\ p # "append" /\ p # "simulate"
    BY DEF Working
  <2>8. \A u \in Threads : Progress(u)'
    BY <1>1, <1>2, <2>1, <2>2, <2>3, <2>5, <2>6, <2>7, ProgressGoes DEF handle
  <2> QED
    BY <1>1, <2>1, <2>3, <2>8 DEF handle, Atomic!vars, Atomic!file, Atomic!handles
<1> QED
  BY <1>4, <1>5, <1>6

\* The extended file is not what callers take for its bytes yet.
LEMMA WriteAtExtendTakes ==
  ASSUME AtomicInv, NEW t \in Threads, WriteAtExtend(t)
  PROVE  UNCHANGED Atomic!vars /\ \A u \in Threads : Progress(u)'
<1> PICK c : c = call[t]
  OBVIOUS
<1>1. /\ pc[t] = "extend" /\ data' = Extended(loaded[t], c.off + Len(c.b)) /\ Goto(t, "copy")
      /\ UNCHANGED <<dir, mode, position, offset, closed, on, call, loaded, answer>>
  BY DEF WriteAtExtend, At, handle
<1>2. /\ pc[t] \in Working /\ pc[t] \notin Outside /\ c.op = "WriteAt" /\ Progress(t)
      /\ loaded[t] = data /\ c.off + Len(c.b) > Len(data) /\ ~closed[on[t]] /\ mode # "readOnly"
  BY <1>1, AtomicLater DEF Progress, Settled, Working
<1>3. StableData = data /\ StableData' = loaded[t] /\ Alone(t)
  BY <1>1, <1>2, StableInside
<1>4. Prepared(data', loaded'[t], c) /\ "copy" \in Working
  BY <1>1, <1>2 DEF Prepared, Working
<1>5. \A u \in Threads : Progress(u)'
  BY <1>1, <1>2, <1>3, <1>4, ProgressGoes
<1> QED
  BY <1>1, <1>2, <1>3, <1>5 DEF Atomic!vars, Atomic!file, Atomic!handles

\* F is d with c's bytes in their place.
Overwritten(f, d, c) ==
  /\ Len(f) = IF c.off + Len(c.b) > Len(d) THEN c.off + Len(c.b) ELSE Len(d)
  /\ \A i \in 1 .. Len(f) :
       f[i] = IF i \in c.off + 1 .. c.off + Len(c.b) THEN c.b[i - c.off]
              ELSE IF i <= Len(d) THEN d[i] ELSE 0

\* The bytes of a prepared file after the copy.
LEMMA CopiedForm ==
  ASSUME NEW d \in Data, NEW c, c.off \in Nat, c.b \in Data, NEW e, Prepared(e, d, c),
         ~(c.off > Len(e))
  PROVE  /\ AtMost(Len(c.b), Len(e) - c.off) = Len(c.b)
         /\ Overwritten(CopyIn(e, c.off, c.b), d, c)
<1> PICK m, k : m = Len(d) /\ k = c.off + Len(c.b)
  OBVIOUS
<1>1. m \in Nat /\ Len(c.b) \in Nat /\ k \in Nat
  BY DataForm, LenProperties
<1>2. PICK n \in Nat : /\ n = IF k > m THEN k ELSE m
                       /\ Len(e) = n
                       /\ \A i \in 1 .. n : e[i] = IF i <= m THEN d[i] ELSE 0
  <2>1. CASE e = d /\ (k <= m \/ c.off > m)
    BY <1>1, <2>1
  <2>2. CASE e = Extended(d, k) /\ k > m
    <3>1. e = [i \in 1 .. k |-> IF i \in 1 .. m THEN d[i] ELSE 0]
      BY <2>2 DEF Extended
    <3>2. Len(e) = k
      BY <1>1, <3>1
    <3>3. \A i \in 1 .. k : e[i] = IF i <= m THEN d[i] ELSE 0
      BY <1>1, <3>1
    <3> QED
      BY <1>1, <2>2, <3>2, <3>3
  <2> QED
    BY <2>1, <2>2 DEF Prepared
<1>3. k <= n
  BY <1>1, <1>2
<1>4. AtMost(Len(c.b), Len(e) - c.off) = Len(c.b)
  BY <1>1, <1>2, <1>3 DEF AtMost
<1> PICK f : f = CopyIn(e, c.off, c.b)
  OBVIOUS
<1>5. f = [i \in 1 .. n |-> IF i \in c.off + 1 .. k THEN c.b[i - c.off] ELSE e[i]]
  BY <1>2 DEF CopyIn
<1>6. Len(f) = n
  BY <1>5
<1>7. \A i \in 1 .. n : f[i] = IF i \in c.off + 1 .. k THEN c.b[i - c.off]
                               ELSE IF i <= m THEN d[i] ELSE 0
  BY <1>2, <1>5
<1>8. Overwritten(f, d, c)
  BY <1>2, <1>6, <1>7 DEF Overwritten
<1> QED
  BY <1>4, <1>8

\* What WriteAt has made of the file since it was called shows all at once.
LEMMA WriteAtCopyTakes ==
  ASSUME AtomicInv, NEW t \in Threads, WriteAtCopy(t)
  PROVE  Atomic!Take(t) /\ \A u \in Threads : Progress(u)'
<1> PICK c, d : c = call[t] /\ d = loaded[t]
  OBVIOUS
<1>1. /\ pc[t] = "copy" /\ UNCHANGED <<dir, mode, position, offset, closed, on, call>>
  BY DEF WriteAtCopy, At, handle
<1>2. /\ pc[t] \in Working /\ pc[t] \notin Outside /\ c.op = "WriteAt" /\ c.off >= 0
      /\ Prepared(data, d, c) /\ mode # "readOnly" /\ c \in Calls /\ d \in Data /\ data \in Data
  BY <1>1, AtomicLater DEF Progress, Settled, Working
<1>3. c.off \in Nat /\ c.b \in Data
  BY <1>2, CallForm, FileAssumption DEF Ints
<1>4. Goto(t, "record")
  BY DEF WriteAtCopy, Return
<1>5. StableData = d /\ StableData' = data'
  BY <1>1, <1>2, <1>4, StableInside
<1>6. CASE c.off > Len(data)
  <2>1. Return(t, Failure("panic")) /\ UNCHANGED data
    BY <1>6 DEF WriteAtCopy
  <2>2. data = d
    <3>1. ASSUME data = Extended(d, c.off + Len(c.b)) PROVE FALSE
      <4>1. Len(c.b) \in Nat
        BY <1>3, DataForm, LenProperties
      <4>2. c.off + Len(c.b) \in Nat
        BY <1>3, <4>1
      <4>3. Len(data) = c.off + Len(c.b)
        BY <3>1, <4>2 DEF Extended
      <4> QED
        BY <1>3, <1>6, <4>1, <4>3
    <3> QED
      BY <1>2, <3>1 DEF Prepared
  <2> QED
    BY <1>1, <1>2, <1>5, <2>1, <2>2, StillOpen, FailTakes
<1>7. CASE ~(c.off > Len(data))
  <2> PICK a : a = Answer("nil", Len(c.b), <<>>)
    OBVIOUS
  <2>1. /\ AtMost(Len(c.b), Len(data) - c.off) = Len(c.b)
        /\ Overwritten(CopyIn(data, c.off, c.b), d, c)
    BY <1>2, <1>3, <1>7, CopiedForm
  <2>2. Return(t, a) /\ data' = CopyIn(data, c.off, c.b)
    BY <1>7, <2>1 DEF WriteAtCopy
  <2>3. a # None /\ a.err = "nil" /\ a.n = Len(c.b)
    BY AnswerSome
  <2>4. UNCHANGED <<dir, mode, Atomic!handles>>
    BY <1>1 DEF Atomic!handles
  <2>5. /\ Len(data') = IF c.off + a.n > Len(d) THEN c.off + a.n ELSE Len(d)
        /\ \A i \in 1 .. Len(data') :
             data'[i] = CASE i \in c.off + 1 .. c.off + a.n -> c.b[i - c.off]
                          [] i \notin c.off + 1 .. c.off + a.n ->
                               IF i <= Len(d) THEN d[i] ELSE 0
    BY <2>1, <2>2, <2>3 DEF Overwritten
  <2>6. Atomic!WriteAt(c, a)
    BY <1>2, <1>3, <1>5, <2>3, <2>4, <2>5 DEF Atomic!WriteAt
  <2> QED
    BY <1>1, <1>2, <2>2, <2>3, <2>6, Takes
<1> QED
  BY <1>6, <1>7

\* A sum of a position and an offset is a position unless it wraps or is negative.
LEMMA SumForm ==
  ASSUME NEW p \in Positions, NEW n \in Ints
  PROVE  /\ Wrap(p + n) < 0 => p + n \notin Positions
         /\ ~(Wrap(p + n) < 0) => Wrap(p + n) = p + n /\ p + n \in Positions
<1>1. MaxInt \in Nat /\ p \in 0 .. MaxInt /\ n \in -MaxInt - 1 .. MaxInt
  BY FileAssumption DEF Positions, Ints
<1> PICK s \in Int : s = p + n
  BY <1>1
<1>2. s \in -MaxInt - 1 .. 2 * MaxInt
  BY <1>1
<1>3. CASE s \in Ints
  <2>1. Wrap(s) = s
    BY <1>3, WrapForm
  <2> QED
    BY <1>1, <1>3, <2>1 DEF Positions, Ints
<1>4. CASE s \notin Ints
  <2>1. s \in MaxInt + 1 .. 2 * MaxInt + 1
    BY <1>1, <1>2, <1>4 DEF Ints
  <2>2. Wrap(s) < 0
    BY <2>1, WrapForm
  <2> QED
    BY <1>1, <2>1, <2>2 DEF Positions
<1> QED
  BY <1>3, <1>4

\* Seek refuses what is not a position and goes to what is.
LEMMA TargetForm ==
  ASSUME AtomicInv, NEW t \in Threads, Body(t, "Seek"), NEW c, c = call[t], StableData = data
  PROVE  /\ Target(t) < 0 =>
              c.whence = "other" \/ Atomic!Origin(t, c) + c.off \notin Positions
         /\ ~(Target(t) < 0) => /\ c.whence # "other" /\ Target(t) \in Positions
                                /\ Target(t) = Atomic!Origin(t, c) + c.off
<1>1. /\ c \in Calls /\ c.op = "Seek" /\ position[on[t]] \in Positions /\ MaxInt \in Nat
      /\ data \in Data /\ Len(data) \in Nat /\ Len(data) <= MaxLen /\ MaxLen \in 0 .. MaxInt
  BY AtomicBody
<1>2. c.off \in Ints /\ c.whence \in {"start", "current", "end", "other"}
  BY <1>1, CallForm
<1>3. Len(data) \in Positions /\ 0 \in Positions
  BY <1>1 DEF Positions
<1>4. CASE c.whence = "start"
  <2>1. Target(t) = c.off /\ Atomic!Origin(t, c) = 0
    BY <1>4 DEF Target, Atomic!Origin
  <2> QED
    BY <1>1, <1>2, <1>4, <2>1 DEF Ints, Positions
<1>5. CASE c.whence = "current"
  <2>1. Target(t) = Wrap(position[on[t]] + c.off) /\ Atomic!Origin(t, c) = position[on[t]]
    BY <1>5 DEF Target, Atomic!Origin
  <2> QED
    BY <1>1, <1>2, <1>5, <2>1, SumForm
<1>6. CASE c.whence = "end"
  <2>1. Target(t) = Wrap(Len(data) + c.off) /\ Atomic!Origin(t, c) = Len(data)
    BY <1>6 DEF Target, Atomic!Origin
  <2> QED
    BY <1>2, <1>3, <1>6, <2>1, SumForm
<1>7. CASE c.whence = "other"
  <2>1. Target(t) = -1
    BY <1>7 DEF Target
  <2> QED
    BY <1>7, <2>1
<1> QED
  BY <1>2, <1>4, <1>5, <1>6, <1>7

\* The overflow of a sum is refused as a negative position is.
LEMMA SeekTakes ==
  ASSUME AtomicInv, NEW t \in Threads, Seek(t)
  PROVE  Atomic!Take(t) /\ \A u \in Threads : Progress(u)'
<1> PICK c, n : c = call[t] /\ n = Target(t)
  OBVIOUS
<1>1. /\ Body(t, "Seek") /\ UNCHANGED <<data, dir, mode, offset, closed, on, call>>
      /\ Goto(t, "record")
  BY DEF Seek, Return
<1>2. pc[t] \in Working /\ c.op = "Seek"
  BY <1>1, AtomicBody
<1>3. StableData = data /\ StableData' = data
  BY <1>1, StableBody
<1>4. CASE n < 0
  <2>1. Return(t, Failure("ErrInvalid")) /\ UNCHANGED position
    BY <1>4 DEF Seek
  <2>2. c.whence = "other" \/ Atomic!Origin(t, c) + c.off \notin Positions
    BY <1>1, <1>3, <1>4, TargetForm
  <2> QED
    BY <1>1, <1>2, <1>3, <2>1, <2>2, StillOpen, FailTakes
<1>5. CASE ~(n < 0)
  <2> PICK a : a = Answer("nil", n, <<>>)
    OBVIOUS
  <2>1. Return(t, a) /\ position' = [position EXCEPT ![on[t]] = n]
    BY <1>5 DEF Seek
  <2>2. a # None /\ a.err = "nil" /\ a.n = n
    BY AnswerSome
  <2>3. c.whence # "other" /\ n \in Positions /\ n = Atomic!Origin(t, c) + c.off
    BY <1>1, <1>3, <1>5, TargetForm
  <2>4. Atomic!Seek(t, c, a)
    BY <1>1, <1>2, <1>3, <2>1, <2>2, <2>3 DEF Atomic!Seek, Atomic!file
  <2> QED
    BY <1>1, <1>2, <2>1, <2>2, <2>4, Takes
<1> QED
  BY <1>4, <1>5

\* Where the batch of a ReadDir ends, and what it is when it does not panic.
BatchEnd(o, n) ==
  IF n > 0 /\ Wrap(o + n) < EntryCount THEN Wrap(o + n) ELSE EntryCount

Batch(o, end) == [i \in 1 .. end - o |-> o + i]

LEMMA BatchForm ==
  ASSUME NEW o \in 0 .. EntryCount, o < EntryCount, NEW n \in Ints,
         NEW end, end = BatchEnd(o, n),
         ~(end < o)
  PROVE  /\ end \in o .. EntryCount /\ end # o
         /\ n > 0 => end - o <= n
         /\ n <= 0 => end = EntryCount
         /\ Len(Batch(o, end)) = end - o
<1>1. /\ MaxInt \in Nat /\ EntryCount \in 0 .. MaxInt /\ n \in -MaxInt - 1 .. MaxInt
      /\ o \in Nat
  BY FileAssumption DEF Ints
<1> PICK s \in Int : s = o + n
  BY <1>1
<1>2. Wrap(s) \in Int
  BY <1>1, WrapForm DEF Ints
<1>3. ASSUME n > 0 PROVE end \in o .. EntryCount /\ end # o /\ end - o <= n
  <2>1. CASE s \in Ints
    <3>1. Wrap(s) = s
      BY <2>1, WrapForm
    <3> QED
      BY <1>1, <1>3, <3>1 DEF BatchEnd
  <2>2. CASE s \notin Ints
    <3>1. s \in MaxInt + 1 .. 2 * MaxInt + 1
      BY <1>1, <1>3, <2>2 DEF Ints
    <3>2. Wrap(s) < 0
      BY <3>1, WrapForm
    <3> QED
      BY <1>1, <1>2, <1>3, <3>2 DEF BatchEnd
  <2> QED
    BY <2>1, <2>2
<1>4. ASSUME ~(n > 0) PROVE end = EntryCount
  BY <1>4 DEF BatchEnd
<1>5. end \in o .. EntryCount /\ end - o \in Nat
  BY <1>1, <1>3, <1>4
<1>6. Len(Batch(o, end)) = end - o
  BY <1>5 DEF Batch
<1> QED
  BY <1>1, <1>3, <1>4, <1>5, <1>6

\* The batch from o up to end is what AtomicFile says of a ReadDir.
LEMMA BatchTaken ==
  ASSUME NEW t, NEW c, NEW a, NEW end, NEW o, o = offset[on[t]], c.op = "ReadDir", dir,
         o \in Nat, end \in Nat, EntryCount \in Nat, c.n \in Int, o <= end, end <= EntryCount,
         a.n = end - o, a.out = Batch(o, end), c.n > 0 => end - o <= c.n,
         a.err = IF c.n > 0 /\ end = EntryCount THEN "EOF" ELSE "nil",
         c.n <= 0 => end = EntryCount, end = o => o = EntryCount,
         offset' = [offset EXCEPT ![on[t]] = end], UNCHANGED <<Atomic!file, position, closed>>
  PROVE  Atomic!ReadDir(t, c, a)
<1>1. o + a.n = end
  OBVIOUS
<1>2. a.out = [i \in 1 .. a.n |-> o + i]
  BY DEF Batch
<1>3. (c.n > 0 => a.n <= c.n) /\ (a.n = 0 => o = EntryCount)
  OBVIOUS
<1> QED
  BY <1>1, <1>2, <1>3, Zenon DEF Atomic!ReadDir

\* The batches follow each other, or the call panics and the offset stays.
LEMMA ReadDirTakes ==
  ASSUME AtomicInv, NEW t \in Threads, ReadDir(t)
  PROVE  Atomic!Take(t) /\ \A u \in Threads : Progress(u)'
<1> PICK c, o : c = call[t] /\ o = offset[on[t]]
  OBVIOUS
<1> PICK n : n = c.n
  OBVIOUS
<1> PICK end : end = BatchEnd(o, n)
  OBVIOUS
<1>1. /\ Body(t, "ReadDir") /\ UNCHANGED <<data, dir, mode, position, closed, on, call>>
      /\ Goto(t, "record")
  BY DEF ReadDir, Return
<1>2. /\ pc[t] \in Working /\ c.op = "ReadDir" /\ c \in Calls /\ dir /\ on[t] \in Handles
      /\ offset \in [Handles -> 0 .. EntryCount] /\ EntryCount \in 0 .. MaxInt /\ MaxInt \in Nat
  BY <1>1, AtomicBody
<1>3. StableData = data /\ StableData' = data
  BY <1>1, StableBody
<1>4. n \in Ints /\ n \in Int /\ o \in 0 .. EntryCount /\ o \in Nat /\ EntryCount \in Nat
  BY <1>2, CallForm DEF Ints
<1>5. UNCHANGED <<Atomic!file, position, closed>>
  BY <1>1, <1>3 DEF Atomic!file
<1>6. CASE o >= EntryCount
  <2> PICK a : a = Failure(IF n > 0 THEN "EOF" ELSE "nil")
    OBVIOUS
  <2>1. Return(t, a) /\ UNCHANGED offset
    BY <1>6 DEF ReadDir
  <2>2. o = EntryCount
    BY <1>4, <1>6
  <2>3. Batch(o, o) = <<>> /\ o - o = 0
    BY <1>4 DEF Batch
  <2>4. /\ a # None /\ a.n = o - o /\ a.out = Batch(o, o)
        /\ a.err = IF n > 0 /\ o = EntryCount THEN "EOF" ELSE "nil"
    BY <2>2, <2>3, AnswerSome
  <2>5. offset' = [offset EXCEPT ![on[t]] = o]
    BY <1>2, <2>1
  <2>6. o <= o /\ o <= EntryCount /\ (n > 0 => o - o <= n)
    BY <1>4, <2>2
  <2>7. Atomic!ReadDir(t, c, a)
    BY <1>2, <1>4, <1>5, <2>2, <2>4, <2>5, <2>6, BatchTaken
  <2> QED
    BY <1>1, <1>2, <2>1, <2>4, <2>7, Takes
<1>7. CASE ~(o >= EntryCount) /\ end < o
  <2>1. Return(t, Failure("panic")) /\ UNCHANGED offset
    BY <1>7 DEF ReadDir, BatchEnd
  <2> QED
    BY <1>1, <1>2, <1>3, <2>1, StillOpen, FailTakes
<1>8. CASE ~(o >= EntryCount) /\ ~(end < o)
  <2> PICK batch : batch = Batch(o, end)
    OBVIOUS
  <2> PICK e : e = IF n > 0 /\ end = EntryCount THEN "EOF" ELSE "nil"
    OBVIOUS
  <2> PICK a : a = Answer(e, Len(batch), batch)
    OBVIOUS
  <2>1. Return(t, a) /\ offset' = [offset EXCEPT ![on[t]] = end]
    BY <1>8 DEF ReadDir, BatchEnd, Batch
  <2>2. o < EntryCount
    BY <1>4, <1>8
  <2>3. /\ end \in o .. EntryCount /\ end # o
        /\ n > 0 => end - o <= n
        /\ n <= 0 => end = EntryCount
        /\ Len(batch) = end - o
    BY <1>4, <1>8, <2>2, BatchForm
  <2>4. a # None /\ a.err = e /\ a.n = end - o /\ a.out = batch
    BY <2>3, AnswerSome
  <2>5. end \in Nat /\ o <= end /\ end <= EntryCount
    BY <1>4, <2>3
  <2>6. Atomic!ReadDir(t, c, a)
    BY <1>2, <1>4, <1>5, <2>1, <2>3, <2>4, <2>5, BatchTaken
  <2> QED
    BY <1>1, <1>2, <2>1, <2>4, <2>6, Takes
<1> QED
  BY <1>6, <1>7, <1>8

\* Stat and Close answer at once.
LEMMA StatTakes ==
  ASSUME AtomicInv, NEW t \in Threads, Stat(t)
  PROVE  Atomic!Take(t) /\ \A u \in Threads : Progress(u)'
<1> PICK c, a : c = call[t] /\ a = Answer("nil", IF dir THEN 0 ELSE Len(data), <<>>)
  OBVIOUS
<1>1. /\ Body(t, "Stat") /\ UNCHANGED <<data, dir, mode, handle, on, call>>
      /\ Goto(t, "record") /\ Return(t, a)
  BY DEF Stat, Return
<1>2. pc[t] \in Working /\ c.op = "Stat"
  BY <1>1, AtomicBody
<1>3. StableData = data /\ StableData' = data
  BY <1>1, StableBody
<1>4. a # None /\ a.err = "nil" /\ a.n = IF dir THEN 0 ELSE Len(data)
  BY AnswerSome
<1>5. Atomic!Stat(c, a)
  BY <1>1, <1>2, <1>3, <1>4 DEF Atomic!Stat, Atomic!file, Atomic!handles, handle
<1> QED
  BY <1>1, <1>2, <1>4, <1>5, Takes

LEMMA CloseTakes ==
  ASSUME AtomicInv, NEW t \in Threads, Close(t)
  PROVE  Atomic!Take(t) /\ \A u \in Threads : Progress(u)'
<1> PICK c, a : c = call[t] /\ a = Failure("nil")
  OBVIOUS
<1>1. /\ Body(t, "Close") /\ UNCHANGED <<data, dir, mode, position, offset, on, call>>
      /\ Goto(t, "record") /\ Return(t, a) /\ closed' = [closed EXCEPT ![on[t]] = TRUE]
  BY DEF Close, Return
<1>2. pc[t] \in Working /\ c.op = "Close"
  BY <1>1, AtomicBody
<1>3. StableData = data /\ StableData' = data
  BY <1>1, StableBody
<1>4. a # None /\ a.err = "nil"
  BY AnswerSome
<1>5. Atomic!Close(t, c, a)
  BY <1>1, <1>2, <1>3, <1>4 DEF Atomic!Close, Atomic!file
<1> QED
  BY <1>1, <1>2, <1>4, <1>5, Takes

-----------------------------------------------------------------------------
(* The rest of a call *)

\* The steps of a call before and after its operation.
LEMMA StartAsks ==
  ASSUME AtomicInv, NEW t \in Threads, NEW h \in Handles, NEW c \in Calls, Start(t, h, c)
  PROVE  Atomic!Ask(t) /\ \A u \in Threads : Progress(u)'
<1>1. /\ pc[t] = "idle" /\ Goto(t, "acquire")
      /\ on' = [on EXCEPT ![t] = h] /\ call' = [call EXCEPT ![t] = c]
      /\ UNCHANGED <<data, dir, mode, position, offset, closed, loaded, answer>>
  BY DEF Start, At, handle
<1>2. /\ pc \in [Threads -> Labels] /\ call = [u \in Threads |-> call[u]]
      /\ on \in [Threads -> Handles]
  BY DEF AtomicInv, TokenInv, FileInv, ThreadPart
<1>3. StableData' = StableData
  BY <1>1, StableOutside DEF Outside
<1>4. Atomic!Ask(t)
  BY <1>1, <1>3 DEF Atomic!Ask, Atomic!file, Atomic!handles, AtomicInv, Progress
<1>5. Progress(t)'
  <2>1. pc'[t] = "acquire" /\ call'[t] = c /\ answer'[t] = answer[t] /\ Progress(t)
    BY <1>1, <1>2 DEF Goto, AtomicInv
  <2>2. c # NoCall
    BY CallForm DEF NoCall
  <2> QED
    BY <1>1, <2>1, <2>2 DEF Progress, Working
<1>6. ASSUME NEW u \in Threads, u # t PROVE Progress(u)'
  <2>1. /\ pc'[u] = pc[u] /\ call'[u] = call[u] /\ answer'[u] = answer[u] /\ on'[u] = on[u]
        /\ Progress(u)
    BY <1>1, <1>2, <1>6 DEF Goto, AtomicInv
  <2> QED
    BY <1>1, <2>1 DEF Progress
<1> QED
  BY <1>4, <1>5, <1>6

\* A call that is refused by its handle takes effect as it takes the token.
LEMMA AcquireTakes ==
  ASSUME AtomicInv, NEW t \in Threads, Acquire(t)
  PROVE  /\ Atomic!Take(t) \/ UNCHANGED Atomic!vars
         /\ \A u \in Threads : Progress(u)'
<1> PICK c, h : c = call[t] /\ h = on[t]
  OBVIOUS
<1>1. /\ pc[t] = "acquire" /\ ticket[h] = NoThread
      /\ UNCHANGED <<data, dir, mode, position, offset, closed, on, call, loaded>>
  BY DEF Acquire, At, handle
<1>2. Alone(t)
  <2> SUFFICES ASSUME NEW u \in Threads \ {t}, pc[u] \notin Outside PROVE FALSE
    BY DEF Alone
  <2>1. on[u] = h /\ h \in Handles
    BY <1>1 DEF AtomicInv, OneHandle, TokenInv, Outside
  <2>2. ticket[h] = u /\ u # NoThread
    BY <2>1, FileAssumption DEF AtomicInv, TokenInv
  <2> QED
    BY <1>1, <2>2
<1>3. /\ c # NoCall /\ answer[t] = None /\ answer = [u \in Threads |-> answer[u]]
      /\ closed \in [Handles -> BOOLEAN] /\ h \in Handles
  BY <1>1 DEF AtomicInv, Progress, FileInv, ThreadPart, FilePart, TokenInv
<1>4. CASE closed[h]
  <2> PICK a : a = Failure("ErrClosed")
    OBVIOUS
  <2>1. Return(t, a)
    BY <1>4 DEF Acquire
  <2>2. a # None /\ a.err = "ErrClosed" /\ a.n = 0 /\ a.out = <<>>
    BY AnswerSome
  <2>3. StableData' = StableData
    BY <1>1, <2>1, StableOutside DEF Outside, Return
  <2>4. answer' = [answer EXCEPT ![t] = a] /\ answer'[t] = a
    BY <1>3, <2>1 DEF Return
  <2>5. Atomic!Refuse(t, a)
    BY <1>1, <1>4, <2>2, <2>3 DEF Atomic!Refuse, Atomic!file, Atomic!handles
  <2>6. Atomic!Take(t)
    BY <1>1, <1>3, <2>2, <2>4, <2>5 DEF Atomic!Take
  <2> QED
    BY <1>1, <1>2, <2>1, <2>2, <2>6, ProgressReturns
<1>5. CASE ~closed[h] /\ c.op = "ReadDir" /\ ~dir
  <2> PICK a : a = Failure("ErrInvalid")
    OBVIOUS
  <2>1. Return(t, a)
    BY <1>5 DEF Acquire
  <2>2. a # None /\ a.err = "ErrInvalid" /\ a.n = 0 /\ a.out = <<>>
    BY AnswerSome
  <2>3. StableData' = StableData
    BY <1>1, <2>1, StableOutside DEF Outside, Return
  <2>4. answer' = [answer EXCEPT ![t] = a] /\ answer'[t] = a
    BY <1>3, <2>1 DEF Return
  <2>5. closed' = [closed EXCEPT ![h] = (c.op = "Close" /\ a.err = "injected")]
    BY <1>1, <1>3, <1>5, <2>2
  <2>6. Atomic!Fail(t, c, a)
    BY <1>1, <1>5, <2>2, <2>3, <2>5 DEF Atomic!Fail, Atomic!file
  <2>7. Atomic!Take(t)
    BY <1>1, <1>3, <1>5, <2>2, <2>4, <2>6 DEF Atomic!Take
  <2> QED
    BY <1>1, <1>2, <2>1, <2>2, <2>7, ProgressReturns
<1>6. CASE ~closed[h] /\ ~(c.op = "ReadDir" /\ ~dir)
  <2>1. Goto(t, "simulate") /\ UNCHANGED answer
    BY <1>6 DEF Acquire
  <2>2. StableData' = StableData
    BY <1>1, <2>1, StableOutside DEF Outside
  <2>3. "simulate" \in Working
    BY DEF Working
  <2>4. \A u \in Threads : Progress(u)'
    BY <1>1, <1>2, <1>6, <2>1, <2>3, ProgressGoes
  <2> QED
    BY <1>1, <2>1, <2>2, <2>4 DEF Atomic!vars, Atomic!file, Atomic!handles
<1> QED
  BY <1>4, <1>5, <1>6

\* Injection and the check of WriteAt before it.
LEMMA SimulateTakes ==
  ASSUME AtomicInv, NEW t \in Threads, Simulate(t)
  PROVE  /\ Atomic!Take(t) \/ UNCHANGED Atomic!vars
         /\ \A u \in Threads : Progress(u)'
<1>1. /\ pc[t] = "simulate" /\ pc[t] \in Working /\ pc[t] \notin Outside
      /\ UNCHANGED <<data, dir, mode, position, offset, closed, on, call, loaded>>
  BY DEF Simulate, At, handle, Working, Outside
<1>2. Progress(t)
  BY DEF AtomicInv
<1>3. CASE call[t].op = "WriteAt" /\ mode = "readOnly"
  <2>1. Return(t, Failure("ErrPermission"))
    BY <1>3 DEF Simulate
  <2>2. StableData' = StableData
    BY <1>1, <2>1, StableInside DEF Return
  <2> QED
    BY <1>1, <1>3, <2>1, <2>2, StillOpen, FailTakes
<1>4. CASE ~(call[t].op = "WriteAt" /\ mode = "readOnly")
  <2>1. Goto(t, "inject") /\ UNCHANGED answer /\ "inject" \in Working
    BY <1>4 DEF Simulate, Working
  <2>2. StableData' = StableData /\ Alone(t)
    BY <1>1, <2>1, StableInside
  <2>3. \A u \in Threads : Progress(u)'
    BY <1>1, <1>2, <1>4, <2>1, <2>2, ProgressGoes DEF Progress
  <2> QED
    BY <1>1, <2>1, <2>2, <2>3 DEF Atomic!vars, Atomic!file, Atomic!handles
<1> QED
  BY <1>3, <1>4

LEMMA InjectTakes ==
  ASSUME AtomicInv, NEW t \in Threads, InjectFailure(t) \/ InjectNothing(t)
  PROVE  /\ Atomic!Take(t) \/ UNCHANGED Atomic!vars
         /\ \A u \in Threads : Progress(u)'
<1>1. /\ pc[t] = "inject" /\ pc[t] \in Working /\ pc[t] \notin Outside
      /\ UNCHANGED <<data, dir, mode, position, offset, on, call, loaded>>
  BY DEF InjectFailure, InjectNothing, At, handle, Working, Outside
<1>2. /\ Progress(t) /\ ~closed[on[t]] /\ closed \in [Handles -> BOOLEAN] /\ on[t] \in Handles
  BY <1>1 DEF AtomicInv, Progress, FileInv, FilePart, TokenInv
<1>3. CASE InjectFailure(t)
  <2>1. /\ Return(t, Failure("injected"))
        /\ closed' = [closed EXCEPT ![on[t]] = @ \/ call[t].op = "Close"]
    BY <1>3 DEF InjectFailure
  <2>2. StableData' = StableData
    BY <1>1, <2>1, StableInside DEF Return
  <2>3. closed' = [closed EXCEPT ![on[t]] = (call[t].op = "Close" /\ "injected" = "injected")]
    BY <1>2, <2>1
  <2> QED
    BY <1>1, <2>1, <2>2, <2>3, FailTakes
<1>4. CASE InjectNothing(t)
  <2>1. Goto(t, "body") /\ UNCHANGED <<closed, answer>> /\ "body" \in Working
    BY <1>4 DEF InjectNothing, handle, Working
  <2>2. StableData' = StableData /\ Alone(t)
    BY <1>1, <2>1, StableInside
  <2>3. \A u \in Threads : Progress(u)'
    BY <1>1, <1>2, <2>1, <2>2, ProgressGoes DEF Progress
  <2> QED
    BY <1>1, <2>1, <2>2, <2>3 DEF Atomic!vars, Atomic!file, Atomic!handles
<1> QED
  BY <1>3, <1>4

\* The deferred calls: nobody sees the statistics here, and the answer is given.
LEMMA RecordStutters ==
  ASSUME AtomicInv, NEW t \in Threads, Record(t)
  PROVE  UNCHANGED Atomic!vars /\ \A u \in Threads : Progress(u)'
<1>1. /\ pc[t] = "record" /\ Goto(t, "release") /\ pc[t] \notin Outside
      /\ UNCHANGED <<data, dir, mode, position, offset, closed, on, call, loaded, answer>>
  BY DEF Record, At, handle, Outside
<1>2. StableData' = StableData /\ Alone(t)
  BY <1>1, StableInside
<1>3. pc \in [Threads -> Labels]
  BY DEF AtomicInv, TokenInv
<1>4. ASSUME NEW u \in Threads PROVE Progress(u)'
  <2>1. Progress(u) /\ pc'[u] = IF u = t THEN "release" ELSE pc[u]
    BY <1>1, <1>3 DEF AtomicInv, Goto
  <2> QED
    BY <1>1, <2>1 DEF Progress, Working
<1> QED
  BY <1>1, <1>2, <1>4 DEF Atomic!vars, Atomic!file, Atomic!handles

LEMMA ReleaseDelivers ==
  ASSUME AtomicInv, NEW t \in Threads, Release(t)
  PROVE  Atomic!Deliver(t) /\ \A u \in Threads : Progress(u)'
<1>1. /\ pc[t] = "release" /\ Goto(t, "idle") /\ pc[t] \notin Outside
      /\ UNCHANGED <<data, dir, mode, position, offset, closed, on, loaded>>
      /\ call' = [call EXCEPT ![t] = NoCall] /\ answer' = [answer EXCEPT ![t] = None]
  BY DEF Release, Leave, At, handle, Outside
<1>2. StableData' = StableData
  BY <1>1, StableInside
<1>3. /\ pc \in [Threads -> Labels] /\ call = [u \in Threads |-> call[u]]
      /\ answer = [u \in Threads |-> answer[u]]
  BY DEF AtomicInv, TokenInv, FileInv, ThreadPart
<1>4. Atomic!Deliver(t)
  BY <1>1, <1>2 DEF Atomic!Deliver, Atomic!file, Atomic!handles, AtomicInv, Progress
<1>5. ASSUME NEW u \in Threads PROVE Progress(u)'
  <2>1. Progress(u)
    BY DEF AtomicInv
  <2>2. CASE u = t
    <3>1. pc'[u] = "idle" /\ call'[u] = NoCall /\ answer'[u] = None
      BY <1>1, <1>3, <2>2 DEF Goto
    <3> QED
      BY <3>1 DEF Progress, Working
  <2>3. CASE u # t
    <3>1. pc'[u] = pc[u] /\ call'[u] = call[u] /\ answer'[u] = answer[u]
      BY <1>1, <1>3, <2>3 DEF Goto
    <3> QED
      BY <1>1, <2>1, <3>1 DEF Progress
  <2> QED
    BY <2>2, <2>3
<1> QED
  BY <1>4, <1>5

\* A WriteFile comes between calls.
LEMMA WriteFileOutside ==
  ASSUME AtomicInv, NEW b, WriteFile(b)
  PROVE  Atomic!Outside /\ \A u \in Threads : Progress(u)'
<1>1. /\ \A t \in Threads : pc[t] = "idle"
      /\ UNCHANGED <<dir, mode, position, offset, closed, on, call, answer, pc, loaded>>
  BY DEF WriteFile, At, handle, thread
<1>2. Atomic!Outside
  BY <1>1 DEF Atomic!Outside, Atomic!handles, AtomicInv, Progress
<1>3. ASSUME NEW u \in Threads PROVE Progress(u)'
  <2>1. Progress(u) /\ pc[u] = "idle"
    BY <1>1 DEF AtomicInv
  <2> QED
    BY <1>1, <2>1 DEF Progress, Working
<1> QED
  BY <1>2, <1>3

\* The calls stay on one handle while one is under way.
LEMMA OneHandleKept ==
  ASSUME AtomicInv, Synchronized, [Next]_vars
  PROVE  OneHandle'
<1>1. /\ \A t \in Threads : pc[t] \in Labels
      /\ pc \in [Threads -> Labels] /\ on \in [Threads -> Handles] /\ OneHandle
  BY DEF AtomicInv, TokenInv
<1>2. ASSUME NEW t \in Threads, NEW h \in Handles, NEW c, Start(t, h, c) PROVE OneHandle'
  <2>1. /\ \A u \in Threads : pc[u] = "idle" \/ on[u] = h
        /\ pc' = [pc EXCEPT ![t] = "acquire"] /\ on' = [on EXCEPT ![t] = h]
    BY <1>2 DEF Start, At, Goto
  <2> QED
    BY <1>1, <2>1 DEF OneHandle
<1>3. ASSUME UNCHANGED on, \A u \in Threads : pc'[u] # "idle" => pc[u] # "idle"
      PROVE  OneHandle'
  BY <1>1, <1>3 DEF OneHandle
<1>4. ASSUME NEW t \in Threads, pc[t] # "idle", NEW p, Goto(t, p), UNCHANGED on PROVE OneHandle'
  <2>1. \A u \in Threads : pc'[u] # "idle" => pc[u] # "idle"
    BY <1>1, <1>4 DEF Goto
  <2> QED
    BY <1>3, <1>4, <2>1
<1>5. ASSUME NEW t \in Threads,
             \/ Acquire(t) \/ Simulate(t) \/ InjectFailure(t) \/ InjectNothing(t)
             \/ Operation(t) \/ Record(t) \/ Release(t)
      PROVE  OneHandle'
  <2>1. pc[t] # "idle" /\ UNCHANGED on
    BY <1>5 DEF Acquire, Simulate, InjectFailure, InjectNothing, Record, Release, Operation,
       Read, ReadAt, Write, AppendLoad, AppendStore, WriteAtLoad, WriteAtExtend, WriteAtCopy,
       Seek, ReadDir, Stat, Close, Body, At
  <2>2. \E p \in Labels : Goto(t, p)
    BY <1>5 DEF Acquire, Simulate, InjectFailure, InjectNothing, Record, Release, Operation,
       Read, ReadAt, Write, AppendLoad, AppendStore, WriteAtLoad, WriteAtExtend, WriteAtCopy,
       Seek, ReadDir, Stat, Close, Return, Leave, Labels
  <2> QED
    BY <1>4, <2>1, <2>2
<1>6. ASSUME NEW b, WriteFile(b) PROVE OneHandle'
  BY <1>3, <1>6 DEF WriteFile, thread
<1>7. CASE UNCHANGED vars
  BY <1>3, <1>7 DEF vars, thread
<1> QED
  BY <1>2, <1>5, <1>6, <1>7 DEF Next, Done

\* Every step is one of AtomicFile, or a stutter.
LEMMA StepTakes ==
  ASSUME AtomicInv, RoomyInts, [Next]_vars
  PROVE  [Atomic!Next]_(Atomic!vars) /\ \A u \in Threads : Progress(u)'
<1>1. ASSUME NEW t \in Threads, NEW h \in Handles, NEW c \in Calls, Start(t, h, c)
      PROVE  Atomic!Next /\ \A u \in Threads : Progress(u)'
  BY <1>1, StartAsks DEF Atomic!Next
<1>2. ASSUME NEW t \in Threads, Atomic!Take(t) \/ UNCHANGED Atomic!vars
      PROVE  [Atomic!Next]_(Atomic!vars)
  BY <1>2 DEF Atomic!Next
<1>3. ASSUME NEW t \in Threads, Acquire(t)
      PROVE  [Atomic!Next]_(Atomic!vars) /\ \A u \in Threads : Progress(u)'
  BY <1>2, <1>3, AcquireTakes
<1>4. ASSUME NEW t \in Threads, Simulate(t)
      PROVE  [Atomic!Next]_(Atomic!vars) /\ \A u \in Threads : Progress(u)'
  BY <1>2, <1>4, SimulateTakes
<1>5. ASSUME NEW t \in Threads, InjectFailure(t) \/ InjectNothing(t)
      PROVE  [Atomic!Next]_(Atomic!vars) /\ \A u \in Threads : Progress(u)'
  BY <1>2, <1>5, InjectTakes
<1>6. ASSUME NEW t \in Threads, Operation(t)
      PROVE  [Atomic!Next]_(Atomic!vars) /\ \A u \in Threads : Progress(u)'
  <2>1. (Atomic!Take(t) \/ UNCHANGED Atomic!vars) /\ \A u \in Threads : Progress(u)'
    BY <1>6, ReadTakes, ReadAtTakes, WriteTakes, AppendLoadTakes, AppendStoreTakes,
       WriteAtLoadTakes, WriteAtExtendTakes, WriteAtCopyTakes, SeekTakes, ReadDirTakes,
       StatTakes, CloseTakes, Zenon DEF Operation
  <2> QED
    BY <1>2, <2>1
<1>7. ASSUME NEW t \in Threads, Record(t)
      PROVE  [Atomic!Next]_(Atomic!vars) /\ \A u \in Threads : Progress(u)'
  BY <1>2, <1>7, RecordStutters
<1>8. ASSUME NEW t \in Threads, Release(t)
      PROVE  Atomic!Next /\ \A u \in Threads : Progress(u)'
  BY <1>8, ReleaseDelivers DEF Atomic!Next
<1>9. ASSUME NEW b, WriteFile(b)
      PROVE  Atomic!Next /\ \A u \in Threads : Progress(u)'
  BY <1>9, WriteFileOutside DEF Atomic!Next
<1>10. CASE UNCHANGED vars
  <2>1. /\ UNCHANGED <<data, dir, mode, position, offset, closed, on, call, answer, pc, loaded>>
    BY <1>10 DEF vars, handle, thread
  <2>2. StableData' = StableData
    BY <2>1 DEF StableData, At
  <2>3. \A u \in Threads : Progress(u)'
    BY <2>1 DEF AtomicInv, Progress
  <2> QED
    BY <2>1, <2>2, <2>3 DEF Atomic!vars, Atomic!file, Atomic!handles
<1> QED
  BY <1>1, <1>3, <1>4, <1>5, <1>6, <1>7, <1>8, <1>9, <1>10, Zenon DEF Next, Done

\* The invariant, step by step and at the start.
LEMMA NextAtomicInv ==
  ASSUME Synchronized, RoomyInts, AtomicInv, [Next]_vars
  PROVE  AtomicInv'
<1>1. FileInv' /\ TokenInv'
  BY NextFileInv, NextTokenInv DEF AtomicInv
<1>2. OneHandle' /\ \A u \in Threads : Progress(u)'
  BY OneHandleKept, StepTakes
<1> QED
  BY <1>1, <1>2 DEF AtomicInv

LEMMA InitAtomicInv == Init => AtomicInv /\ Atomic!Init
<1> SUFFICES ASSUME Init PROVE AtomicInv /\ Atomic!Init
  OBVIOUS
<1>1. FileInv /\ TokenInv
  BY InitFileInv, InitTokenInv
<1>2. OneHandle /\ \A t \in Threads : Progress(t)
  BY DEF Init, OneHandle, Progress, Working
<1>3. StableData = data
  BY StableForm DEF Init
<1>4. Atomic!Init
  BY <1>3 DEF Init, Atomic!Init
<1> QED
  BY <1>1, <1>2, <1>4 DEF AtomicInv

\* Callers that use one handle at a time see each call take effect at once, while
\* it runs, or fail and change nothing but what an injected Close closes: for any
\* goroutines, handles, calls and bytes, the handles implement AtomicFile.  The
\* token alone makes it so; the two loads and stores of WriteAt and of an append
\* in between are never seen.
THEOREM CallsAreAtomic ==
  ASSUME Synchronized, RoomyInts
  PROVE  Spec => RefinesAtomicFile
<1>1. Init => AtomicInv /\ Atomic!Init
  BY InitAtomicInv
<1>2. AtomicInv /\ [Next]_vars => AtomicInv' /\ [Atomic!Next]_(Atomic!vars)
  BY NextAtomicInv, StepTakes
<1>3. Init /\ [][Next]_vars => Atomic!Init /\ [][Atomic!Next]_(Atomic!vars)
  BY <1>1, <1>2, PTL
<1> QED
  BY <1>3 DEF Spec, RefinesAtomicFile, Atomic!Spec
=============================================================================
