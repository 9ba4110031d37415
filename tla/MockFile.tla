------------------------------ MODULE MockFile ------------------------------
(***************************************************************************)
(* mockfile.go: handles on one file or directory of a MockFS, each used by *)
(* several goroutines.                                                     *)
(*                                                                         *)
(* A call takes its handle's one-token channel, keeps it through the       *)
(* simulated latency, the error injection and the operation itself, records *)
(* the outcome in the handle's Stats and puts the token back, by deferred  *)
(* calls that a panic runs too.  The handles share the MapFile, which no   *)
(* lock protects: a write loads the file's slice and stores a new one in   *)
(* two steps.  Which calls the ErrorInjector fails is left open here.      *)
(*                                                                         *)
(* A definition called "wrong" in its comment is not part of the model: it *)
(* is the next one with a mistake in it, which some property must notice.  *)
(***************************************************************************)
EXTENDS Integers, Sequences, FiniteSets, FiniteSetsExt

CONSTANTS
  Threads, Handles,
  NoThread,      \* "the token is in the channel"
  Calls,         \* the calls the threads make
  InitialData,   \* the bytes of the file at the start
  EntryCount,    \* entries that a handle on the directory lists
  Kinds,         \* what is opened: [dir : BOOLEAN, mode : WriteModes]
  Synchronized,  \* do the callers keep calls on different handles apart?
  MaxInt,        \* largest value of an int64 and of an int
  MaxLen,        \* longest slice that can be allocated
  MaxCalls       \* bound: calls in a behaviour

WriteModes == {"append", "overwrite", "readOnly"}

Positions == 0 .. MaxInt
Bytes     == 0 .. 2
Data      == UNION {[1 .. n -> Bytes] : n \in 0 .. MaxLen}
Ints      == -MaxInt - 1 .. MaxInt

CallType ==
  [op : {"Read"}, len : 0 .. MaxLen]
  \cup [op : {"ReadAt"}, len : 0 .. MaxLen, off : Ints]
  \cup [op : {"Write"}, b : Data]
  \cup [op : {"WriteAt"}, b : Data, off : Ints]
  \cup [op : {"Seek"}, off : Ints, whence : {"start", "current", "end", "other"}]
  \cup [op : {"ReadDir"}, n : Ints]
  \cup [op : {"Stat", "Close"}]

ASSUME FileAssumption ==
  /\ NoThread \notin Threads /\ Handles # {}
  /\ MaxInt \in Nat /\ MaxLen \in 0 .. MaxInt /\ EntryCount \in 0 .. MaxInt
  /\ Calls \subseteq CallType
  /\ InitialData \in Data
  /\ Kinds \subseteq [dir : BOOLEAN, mode : WriteModes]
  /\ Synchronized \in BOOLEAN
  /\ MaxCalls \in Nat

VARIABLES
  data,      \* MapFile.Data
  dir,       \* MapFile.Mode.IsDir()
  mode,      \* MockFile.writeMode, the same for all handles
  position,  \* MockFile.position of each handle
  offset,    \* the offset in each handle's ReadDir closure
  closed,    \* MockFile.closed
  ticket,    \* MockFile.mu: the thread that has taken the token
  stats,     \* MockFile.stats
  pc,        \* where each thread is in its call
  on,        \* the handle it calls
  call,      \* the call
  loaded,    \* the slice it has loaded from the MapFile
  answer,    \* what the call returns
  made,      \* calls so far
  tally      \* history: what the callers of each handle have been told

handle == <<position, offset, closed>>
thread == <<pc, on, call, loaded, answer, made>>
vars   == <<data, dir, mode, handle, ticket, stats, tally, thread>>

-----------------------------------------------------------------------------
(* Calls, answers and statistics *)

NoCall == [op |-> "none"]
None   == [err |-> "none", n |-> 0, out |-> <<>>]

Answer(err, n, out) == [err |-> err, n |-> n, out |-> out]
Failure(err)        == Answer(err, 0, <<>>)

StatOps == {"Read", "Write", "Seek", "ReadDir", "Stat", "Close"}

\* ReadAt and WriteAt are recorded as OpRead and OpWrite.
StatOp(op) == CASE op = "ReadAt" -> "Read" [] op = "WriteAt" -> "Write" [] OTHER -> op

\* StatsRecorder.Record.  A call that panics has set neither n nor err.
Recorded(s, op, a) ==
  LET count == IF a.err = "panic" THEN 0 ELSE a.n
  IN [s EXCEPT !.total[op]     = @ + 1,
               !.failure[op]   = IF a.err \in {"nil", "panic"} THEN @ ELSE @ + 1,
               !.bytesRead     = IF op = "Read" THEN @ + count ELSE @,
               !.bytesWritten  = IF op = "Write" THEN @ + count ELSE @]

NewStats == [total |-> [op \in StatOps |-> 0], failure |-> [op \in StatOps |-> 0],
             bytesRead |-> 0, bytesWritten |-> 0]

\* int and int64 arithmetic.
Wrap(n) == ((n + MaxInt + 1) % (2 * (MaxInt + 1))) - (MaxInt + 1)

AtMost(n, limit) == IF n < limit THEN n ELSE limit

\* What copy(b, d[from:]) puts in a buffer of n bytes.
CopyOut(d, from, n) == SubSeq(d, from + 1, AtMost(from + n, Len(d)))

\* d after copy(d[at:], b).
CopyIn(d, at, b) ==
  [i \in 1 .. Len(d) |-> IF i \in at + 1 .. at + Len(b) THEN b[i - at] ELSE d[i]]

\* d in a new slice of n bytes.
Extended(d, n) == [i \in 1 .. n |-> IF i \in 1 .. Len(d) THEN d[i] ELSE 0]

-----------------------------------------------------------------------------
(* A call, up to its operation *)

At(t, l) == pc[t] = l

Goto(t, l) == pc' = [pc EXCEPT ![t] = l]

\* The deferred calls come next.
Return(t, a) == Goto(t, "record") /\ answer' = [answer EXCEPT ![t] = a]

\* The caller's part.  Synchronized callers use one handle at a time.
Start(t, h, c) ==
  /\ At(t, "idle") /\ made < MaxCalls
  /\ Synchronized => \A u \in Threads : At(u, "idle") \/ on[u] = h
  /\ Goto(t, "acquire")
  /\ on' = [on EXCEPT ![t] = h]
  /\ call' = [call EXCEPT ![t] = c]
  /\ made' = made + 1
  /\ UNCHANGED <<data, dir, mode, handle, ticket, stats, tally, loaded, answer>>

\* Wrong: the outcome of a call on a closed handle is not recorded.
AcquireUnrecorded(t) ==
  LET h == on[t]
  IN /\ At(t, "acquire") /\ ticket[h] = NoThread
     /\ ticket' = [ticket EXCEPT ![h] = t]
     /\ IF closed[h]
          THEN Goto(t, "release") /\ answer' = [answer EXCEPT ![t] = Failure("ErrClosed")]
        ELSE IF call[t].op = "ReadDir" /\ ~dir THEN Return(t, Failure("ErrInvalid"))
        ELSE Goto(t, "simulate") /\ UNCHANGED answer
     /\ UNCHANGED <<data, dir, mode, handle, stats, tally, on, call, loaded, made>>

\* <-f.mu, and the checks before the latency.
Acquire(t) ==
  LET h == on[t]
  IN /\ At(t, "acquire") /\ ticket[h] = NoThread
     /\ ticket' = [ticket EXCEPT ![h] = t]
     /\ IF closed[h] THEN Return(t, Failure("ErrClosed"))
        ELSE IF call[t].op = "ReadDir" /\ ~dir THEN Return(t, Failure("ErrInvalid"))
        ELSE Goto(t, "simulate") /\ UNCHANGED answer
     /\ UNCHANGED <<data, dir, mode, handle, stats, tally, on, call, loaded, made>>

\* Wrong: the token is given back for the time of the latency.
SimulateUnlocked(t) ==
  /\ At(t, "simulate")
  /\ IF call[t].op = "WriteAt" /\ mode = "readOnly"
       THEN Return(t, Failure("ErrPermission")) /\ UNCHANGED ticket
       ELSE /\ Goto(t, "inject") /\ UNCHANGED answer
            /\ ticket' = [ticket EXCEPT ![on[t]] = NoThread]
  /\ UNCHANGED <<data, dir, mode, handle, stats, tally, on, call, loaded, made>>

\* The latency has passed.  WriteAt looks at the write mode before injection.
Simulate(t) ==
  /\ At(t, "simulate")
  /\ IF call[t].op = "WriteAt" /\ mode = "readOnly" THEN Return(t, Failure("ErrPermission"))
     ELSE Goto(t, "inject") /\ UNCHANGED answer
  /\ UNCHANGED <<data, dir, mode, handle, ticket, stats, tally, on, call, loaded, made>>

\* The injector fails the call.  A Close closes the handle all the same.
InjectFailure(t) ==
  /\ At(t, "inject")
  /\ Return(t, Failure("injected"))
  /\ closed' = [closed EXCEPT ![on[t]] = @ \/ call[t].op = "Close"]
  /\ UNCHANGED <<data, dir, mode, position, offset, ticket, stats, tally, on, call, loaded, made>>

InjectNothing(t) ==
  /\ At(t, "inject")
  /\ Goto(t, "body")
  /\ UNCHANGED <<data, dir, mode, handle, ticket, stats, tally, on, call, loaded, answer, made>>

-----------------------------------------------------------------------------
(* The operations *)

Body(t, op) == At(t, "body") /\ call[t].op = op

Read(t) ==
  LET h   == on[t]
      out == CopyOut(data, position[h], call[t].len)
  IN /\ Body(t, "Read")
     /\ IF position[h] >= Len(data)
          THEN Return(t, Failure("EOF")) /\ UNCHANGED position
          ELSE /\ Return(t, Answer("nil", Len(out), out))
               /\ position' = [position EXCEPT ![h] = @ + Len(out)]
     /\ UNCHANGED <<data, dir, mode, offset, closed, ticket, stats, tally, on, call, loaded, made>>

ReadAt(t) ==
  LET c   == call[t]
      out == CopyOut(data, c.off, c.len)
  IN /\ Body(t, "ReadAt")
     /\ Return(t, IF c.off < 0 THEN Failure("ErrNegativeOffset")
                  ELSE IF c.off >= Len(data) THEN Failure("EOF")
                  ELSE Answer(IF Len(out) < c.len THEN "EOF" ELSE "nil", Len(out), out))
     /\ UNCHANGED <<data, dir, mode, handle, ticket, stats, tally, on, call, loaded, made>>

\* Write, when it fails, and when it replaces the slice without loading it.
Write(t) ==
  LET b == call[t].b
  IN /\ Body(t, "Write") /\ mode # "append"
     /\ IF mode = "readOnly"
          THEN Return(t, Failure("ErrPermission")) /\ UNCHANGED <<data, position>>
          ELSE /\ Return(t, Answer("nil", Len(b), <<>>))
               /\ data' = b
               /\ position' = [position EXCEPT ![on[t]] = Len(b)]
     /\ UNCHANGED <<dir, mode, offset, closed, ticket, stats, tally, on, call, loaded, made>>

\* Appending: append loads the slice, and panics if the new one is too long ...
AppendLoad(t) ==
  /\ Body(t, "Write") /\ mode = "append"
  /\ IF Len(data) + Len(call[t].b) > MaxLen
       THEN Return(t, Failure("panic")) /\ UNCHANGED loaded
       ELSE /\ loaded' = [loaded EXCEPT ![t] = data]
            /\ Goto(t, "append") /\ UNCHANGED answer
  /\ UNCHANGED <<data, dir, mode, handle, ticket, stats, tally, on, call, made>>

\* ... and what it returns is stored.  The position stays.
AppendStore(t) ==
  /\ At(t, "append")
  /\ data' = loaded[t] \o call[t].b
  /\ Return(t, Answer("nil", Len(call[t].b), <<>>))
  /\ loaded' = [loaded EXCEPT ![t] = <<>>]
  /\ UNCHANGED <<dir, mode, handle, ticket, stats, tally, on, call, made>>

\* WriteAt up to its decision to extend the file.  A slice that is too long to
\* be allocated makes it panic.
WriteAtLoad(t) ==
  LET c      == call[t]
      needed == Wrap(c.off + Len(c.b))
  IN /\ Body(t, "WriteAt")
     /\ IF c.off < 0
          THEN Return(t, Failure("ErrNegativeOffset")) /\ UNCHANGED loaded
        ELSE IF needed > MaxLen
          THEN Return(t, Failure("panic")) /\ UNCHANGED loaded
        ELSE /\ loaded' = [loaded EXCEPT ![t] = data]
             /\ Goto(t, IF needed > Len(data) THEN "extend" ELSE "copy")
             /\ UNCHANGED answer
     /\ UNCHANGED <<data, dir, mode, handle, ticket, stats, tally, on, call, made>>

WriteAtExtend(t) ==
  /\ At(t, "extend")
  /\ data' = Extended(loaded[t], call[t].off + Len(call[t].b))
  /\ Goto(t, "copy")
  /\ UNCHANGED <<dir, mode, handle, ticket, stats, tally, on, call, loaded, answer, made>>

\* The slice is loaded again.  If off + len(b) has overflowed, or another handle
\* has made the file shorter, Data[off:] panics.
WriteAtCopy(t) ==
  LET c == call[t]
  IN /\ At(t, "copy")
     /\ IF c.off > Len(data) THEN Return(t, Failure("panic")) /\ UNCHANGED data
        ELSE /\ Return(t, Answer("nil", AtMost(Len(c.b), Len(data) - c.off), <<>>))
             /\ data' = CopyIn(data, c.off, c.b)
     /\ loaded' = [loaded EXCEPT ![t] = <<>>]
     /\ UNCHANGED <<dir, mode, handle, ticket, stats, tally, on, call, made>>

\* Where Seek goes; -1 for a whence that io does not define.
Target(t) ==
  LET c == call[t]
  IN CASE c.whence = "start"   -> c.off
       [] c.whence = "current" -> Wrap(position[on[t]] + c.off)
       [] c.whence = "end"     -> Wrap(Len(data) + c.off)
       [] c.whence = "other"   -> -1

\* Wrong: only a whence that is not one of io's is refused.
SeekAnywhere(t) ==
  /\ Body(t, "Seek")
  /\ IF call[t].whence = "other" THEN Return(t, Failure("ErrInvalid")) /\ UNCHANGED position
     ELSE /\ Return(t, Answer("nil", Target(t), <<>>))
          /\ position' = [position EXCEPT ![on[t]] = Target(t)]
  /\ UNCHANGED <<data, dir, mode, offset, closed, ticket, stats, tally, on, call, loaded, made>>

\* A sum that overflows is negative.
Seek(t) ==
  /\ Body(t, "Seek")
  /\ IF Target(t) < 0 THEN Return(t, Failure("ErrInvalid")) /\ UNCHANGED position
     ELSE /\ Return(t, Answer("nil", Target(t), <<>>))
          /\ position' = [position EXCEPT ![on[t]] = Target(t)]
  /\ UNCHANGED <<data, dir, mode, offset, closed, ticket, stats, tally, on, call, loaded, made>>

\* The closure of createReadDirClosure or of NewDirHandler: the next n entries,
\* or the rest.  When offset + n overflows, slicing the entries panics.
ReadDir(t) ==
  LET h     == on[t]
      n     == call[t].n
      next  == Wrap(offset[h] + n)
      end   == IF n > 0 /\ next < EntryCount THEN next ELSE EntryCount
      batch == [i \in 1 .. end - offset[h] |-> offset[h] + i]
      err   == IF n > 0 /\ end = EntryCount THEN "EOF" ELSE "nil"
  IN /\ Body(t, "ReadDir")
     /\ IF offset[h] >= EntryCount
          THEN Return(t, Failure(IF n > 0 THEN "EOF" ELSE "nil")) /\ UNCHANGED offset
        ELSE IF end < offset[h] THEN Return(t, Failure("panic")) /\ UNCHANGED offset
        ELSE /\ Return(t, Answer(err, Len(batch), batch))
             /\ offset' = [offset EXCEPT ![h] = end]
     /\ UNCHANGED <<data, dir, mode, position, closed, ticket, stats, tally, on, call, loaded, made>>

\* The size that the FileInfo reports, 0 for a directory.
Stat(t) ==
  /\ Body(t, "Stat")
  /\ Return(t, Answer("nil", IF dir THEN 0 ELSE Len(data), <<>>))
  /\ UNCHANGED <<data, dir, mode, handle, ticket, stats, tally, on, call, loaded, made>>

Close(t) ==
  /\ Body(t, "Close")
  /\ Return(t, Failure("nil"))
  /\ closed' = [closed EXCEPT ![on[t]] = TRUE]
  /\ UNCHANGED <<data, dir, mode, position, offset, ticket, stats, tally, on, call, loaded, made>>

Operation(t) ==
  \/ Read(t) \/ ReadAt(t) \/ Seek(t) \/ ReadDir(t) \/ Stat(t) \/ Close(t)
  \/ Write(t) \/ AppendLoad(t) \/ AppendStore(t)
  \/ WriteAtLoad(t) \/ WriteAtExtend(t) \/ WriteAtCopy(t)

-----------------------------------------------------------------------------
(* The deferred calls, last deferred first *)

Record(t) ==
  LET h == on[t]
  IN /\ At(t, "record")
     /\ stats' = [stats EXCEPT ![h] = Recorded(@, StatOp(call[t].op), answer[t])]
     /\ Goto(t, "release")
     /\ UNCHANGED <<data, dir, mode, handle, ticket, tally, on, call, loaded, answer, made>>

\* A call that is over, as its caller sees it: the bytes of a read are those that
\* it has been given.  A panic reports no error.
Counted(s, op, a) ==
  [total        |-> [s.total EXCEPT ![op] = @ + 1],
   failure      |-> [s.failure EXCEPT ![op] = @ + IF a.err \in {"nil", "panic"} THEN 0 ELSE 1],
   bytesRead    |-> s.bytesRead + IF op = "Read" THEN Len(a.out) ELSE 0,
   bytesWritten |-> s.bytesWritten + IF op = "Write" THEN a.n ELSE 0]

\* The caller has its answer.
Leave(t) ==
  /\ tally' = [tally EXCEPT ![on[t]] = Counted(@, StatOp(call[t].op), answer[t])]
  /\ Goto(t, "idle")
  /\ call' = [call EXCEPT ![t] = NoCall]
  /\ answer' = [answer EXCEPT ![t] = None]

\* Wrong: the token is put back by a plain statement, that a panic skips.
ReleaseUndeferred(t) ==
  /\ At(t, "release")
  /\ ticket' = IF answer[t].err = "panic" THEN ticket ELSE [ticket EXCEPT ![on[t]] = NoThread]
  /\ Leave(t)
  /\ UNCHANGED <<data, dir, mode, handle, stats, on, loaded, made>>

Release(t) ==
  /\ At(t, "release")
  /\ ticket' = [ticket EXCEPT ![on[t]] = NoThread]
  /\ Leave(t)
  /\ UNCHANGED <<data, dir, mode, handle, stats, on, loaded, made>>

-----------------------------------------------------------------------------

\* MockFS.WriteFile on the same path, between the calls on its handles.
WriteFile(b) ==
  /\ \A t \in Threads : At(t, "idle")
  /\ mode # "readOnly"
  /\ data' = IF mode = "append" THEN data \o b ELSE b
  /\ Len(data') <= MaxLen
  /\ UNCHANGED <<dir, mode, handle, ticket, stats, tally, thread>>

Init ==
  /\ \E k \in Kinds : dir = k.dir /\ mode = k.mode
  /\ data = IF dir THEN <<>> ELSE InitialData
  /\ position = [h \in Handles |-> 0]
  /\ offset   = [h \in Handles |-> 0]
  /\ closed   = [h \in Handles |-> FALSE]
  /\ ticket   = [h \in Handles |-> NoThread]
  /\ stats    = [h \in Handles |-> NewStats]
  /\ tally    = [h \in Handles |-> NewStats]
  /\ pc       = [t \in Threads |-> "idle"]
  /\ on       = [t \in Threads |-> CHOOSE h \in Handles : TRUE]
  /\ call     = [t \in Threads |-> NoCall]
  /\ loaded   = [t \in Threads |-> <<>>]
  /\ answer   = [t \in Threads |-> None]
  /\ made     = 0

Done == made = MaxCalls /\ (\A t \in Threads : At(t, "idle")) /\ UNCHANGED vars

Next ==
  \/ \E t \in Threads :
       \/ \E h \in Handles, c \in Calls : Start(t, h, c)
       \/ Acquire(t) \/ Simulate(t) \/ InjectFailure(t) \/ InjectNothing(t)
       \/ Operation(t)
       \/ Record(t) \/ Release(t)
  \/ \E c \in Calls : c.op = "Write" /\ WriteFile(c.b)
  \/ Done

Spec == Init /\ [][Next]_vars

-----------------------------------------------------------------------------
(* Properties *)

Labels == {"idle", "acquire", "simulate", "inject", "body", "append", "extend", "copy",
           "record", "release"}

\* Types; the bytes of the file never exceed what can be allocated, and a
\* position is never negative.
TypeOK ==
  /\ data \in Data /\ [dir |-> dir, mode |-> mode] \in Kinds
  /\ position \in [Handles -> Positions]
  /\ offset \in [Handles -> 0 .. EntryCount]
  /\ closed \in [Handles -> BOOLEAN]
  /\ ticket \in [Handles -> Threads \cup {NoThread}]
  /\ \A h \in Handles, op \in StatOps : stats[h].failure[op] \in 0 .. stats[h].total[op]
  /\ pc \in [Threads -> Labels]
  /\ on \in [Threads -> Handles]
  /\ call \in [Threads -> Calls \cup {NoCall}]
  /\ loaded \in [Threads -> Data]
  /\ \A t \in Threads : answer[t].n \in Positions
  /\ made \in 0 .. MaxCalls

\* A handle's token is out exactly while one thread is between taking it and the
\* end of its deferred calls, whatever the outcome, a panic included.  So no
\* call can wait for a token that nobody will put back.
TicketOfCaller == \A h \in Handles :
  {t \in Threads : on[t] = h /\ pc[t] \notin {"idle", "acquire"}} =
    {t \in Threads : ticket[h] = t}

\* The Stats of a handle are what its callers have been told, operation by
\* operation, with the errors and the bytes, calls on closed handles and calls that
\* panic included; only the call that is about to put the token back is in them
\* before its caller knows.
StatsAddUp == \A h \in Handles :
  LET ending == {t \in Threads : on[t] = h /\ At(t, "release")}
  IN \/ ending = {} /\ stats[h] = tally[h]
     \/ \E t \in Threads :
          ending = {t} /\ stats[h] = Counted(tally[h], StatOp(call[t].op), answer[t])

\* With callers that use one handle at a time, every call takes effect in one
\* step while it is running, as AtomicFile says.
StableData  == IF \E t \in Threads : At(t, "copy")
                 THEN loaded[CHOOSE t \in Threads : At(t, "copy")] ELSE data
Atomic      == INSTANCE AtomicFile WITH data <- StableData
RefinesAtomicFile == Atomic!Spec

\* "MockFS is safe for concurrent use", doc.go: no append that has reported
\* success is missing from the file.
AppendsAreKept ==
  (\A t \in Threads : At(t, "idle")) =>
    Len(data) >= Len(InitialData) + MapThenSumSet(LAMBDA h : stats[h].bytesWritten, Handles)

\* The comment of NewDirHandler, "correctly implements pagination": a ReadDir
\* ends with entries or an error.
ReadDirReturns == \A t \in Threads :
  call[t].op = "ReadDir" => answer[t].err # "panic"
=============================================================================
