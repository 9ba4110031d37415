----------------------------- MODULE AtomicFile -----------------------------
(***************************************************************************)
(* What the handles of a file promise: each call takes effect in one step  *)
(* between being made and being answered, as io.Reader, io.ReaderAt,       *)
(* io.Writer, io.WriterAt, io.Seeker and fs.ReadDirFile say, or fails and  *)
(* changes nothing.                                                        *)
(***************************************************************************)
EXTENDS Integers, Sequences

CONSTANTS Threads, Handles, Calls, NoCall, None, InitialData, Positions, EntryCount

VARIABLES
  data, dir, mode,           \* the file
  position, offset, closed,  \* its handles
  on, call, answer           \* the calls of the threads

file    == <<data, dir, mode>>
handles == <<position, offset, closed>>
vars    == <<file, handles, on, call, answer>>

Ask(t) ==
  /\ call[t] = NoCall
  /\ \E h \in Handles, c \in Calls :
       on' = [on EXCEPT ![t] = h] /\ call' = [call EXCEPT ![t] = c]
  /\ UNCHANGED <<file, handles, answer>>

Deliver(t) ==
  /\ answer[t] # None
  /\ answer' = [answer EXCEPT ![t] = None]
  /\ call' = [call EXCEPT ![t] = NoCall]
  /\ UNCHANGED <<file, handles, on>>

-----------------------------------------------------------------------------
(* The effects of the call c of thread t with the answer a *)

\* A call on a closed handle.
Refuse(t, a) ==
  /\ closed[on[t]]
  /\ a.err = "ErrClosed" /\ a.out = <<>> /\ a.n = 0
  /\ UNCHANGED <<file, handles>>

\* Where the offset of a Seek counts from.
Origin(t, c) == CASE c.whence = "start"   -> 0
                  [] c.whence = "current" -> position[on[t]]
                  [] c.whence = "end"     -> Len(data)

\* A call that fails leaves everything as it is, but an injected failure of
\* Close closes.  Invalid offsets are refused, and no others.
Fail(t, c, a) ==
  /\ a.out = <<>> /\ a.n = 0
  /\ CASE a.err = "injected"          -> TRUE
       [] a.err = "ErrPermission"     -> c.op \in {"Write", "WriteAt"} /\ mode = "readOnly"
       [] a.err = "ErrNegativeOffset" -> c.op \in {"ReadAt", "WriteAt"} /\ c.off < 0
       [] a.err = "panic"             -> c.op \in {"Write", "WriteAt", "ReadDir"}
       [] a.err = "ErrInvalid"        ->
            \/ c.op = "ReadDir" /\ ~dir
            \/ c.op = "Seek" /\ (c.whence = "other" \/ Origin(t, c) + c.off \notin Positions)
       [] OTHER                       -> FALSE
  /\ closed' = [closed EXCEPT ![on[t]] = c.op = "Close" /\ a.err = "injected"]
  /\ UNCHANGED <<file, position, offset>>

\* The bytes out are those of the file from the position p on.
Reads(a, p, len) ==
  /\ a.n = Len(a.out) /\ a.n <= len
  /\ \A i \in 1 .. a.n : a.out[i] = data[p + i]

\* End of file is told only when nothing is left; otherwise as much is read as
\* there is, and the next Read goes on behind it.
Read(t, c, a) ==
  LET p == position[on[t]]
  IN /\ c.op = "Read"
     /\ Reads(a, p, c.len)
     /\ a.err = IF p < Len(data) THEN "nil" ELSE "EOF"
     /\ a.n = c.len \/ p + a.n >= Len(data)
     /\ position' = [position EXCEPT ![on[t]] = @ + a.n]
     /\ UNCHANGED <<file, offset, closed>>

\* Fewer bytes than asked for come with an error.
ReadAt(c, a) ==
  /\ c.op = "ReadAt" /\ c.off >= 0
  /\ Reads(a, c.off, c.len)
  /\ a.err = "nil" => a.n = c.len
  /\ a.err \in {"nil", "EOF"}
  /\ a.err = "EOF" => c.off + a.n >= Len(data)
  /\ UNCHANGED <<file, handles>>

Write(t, c, a) ==
  /\ c.op = "Write" /\ a.err = "nil" /\ a.n = Len(c.b)
  /\ \/ mode = "append" /\ data' = data \o c.b /\ UNCHANGED position
     \/ /\ mode = "overwrite" /\ data' = c.b
        /\ position' = [position EXCEPT ![on[t]] = a.n]
  /\ UNCHANGED <<dir, mode, offset, closed>>

\* All of b is at its place, the rest of the file is kept, a gap is filled.
WriteAt(c, a) ==
  /\ c.op = "WriteAt" /\ a.err = "nil" /\ mode # "readOnly"
  /\ a.n = Len(c.b) /\ c.off >= 0
  /\ Len(data') = IF c.off + a.n > Len(data) THEN c.off + a.n ELSE Len(data)
  /\ \A i \in 1 .. Len(data') :
       data'[i] = CASE i \in c.off + 1 .. c.off + a.n -> c.b[i - c.off]
                    [] i \notin c.off + 1 .. c.off + a.n ->
                         IF i <= Len(data) THEN data[i] ELSE 0
  /\ UNCHANGED <<dir, mode, handles>>

Seek(t, c, a) ==
  /\ c.op = "Seek" /\ a.err = "nil" /\ a.n \in Positions
  /\ c.whence # "other" /\ a.n = Origin(t, c) + c.off
  /\ position' = [position EXCEPT ![on[t]] = a.n]
  /\ UNCHANGED <<file, offset, closed>>

\* Successive batches are the entries in their order, each once.
ReadDir(t, c, a) ==
  LET o == offset[on[t]]
  IN /\ c.op = "ReadDir" /\ dir
     /\ a.out = [i \in 1 .. a.n |-> o + i] /\ o + a.n <= EntryCount
     /\ c.n > 0 => a.n <= c.n
     /\ a.err = IF c.n > 0 /\ o + a.n = EntryCount THEN "EOF" ELSE "nil"
     /\ c.n <= 0 => o + a.n = EntryCount
     /\ a.n = 0 => o = EntryCount
     /\ offset' = [offset EXCEPT ![on[t]] = o + a.n]
     /\ UNCHANGED <<file, position, closed>>

Stat(c, a) ==
  /\ c.op = "Stat" /\ a.err = "nil" /\ a.n = IF dir THEN 0 ELSE Len(data)
  /\ UNCHANGED <<file, handles>>

Close(t, c, a) ==
  /\ c.op = "Close" /\ a.err = "nil"
  /\ closed' = [closed EXCEPT ![on[t]] = TRUE]
  /\ UNCHANGED <<file, position, offset>>

Take(t) ==
  LET c == call[t]
      a == answer'[t]
  IN /\ c # NoCall /\ answer[t] = None /\ a # None
     /\ answer' = [answer EXCEPT ![t] = a]
     /\ \/ Refuse(t, a)
        \/ /\ ~closed[on[t]]
           /\ \/ Fail(t, c, a) \/ Read(t, c, a) \/ ReadAt(c, a) \/ Write(t, c, a)
              \/ WriteAt(c, a) \/ Seek(t, c, a) \/ ReadDir(t, c, a) \/ Stat(c, a)
              \/ Close(t, c, a)
     /\ UNCHANGED <<on, call>>

\* Somebody else writes the file between calls.
Outside ==
  /\ \A t \in Threads : call[t] = NoCall
  /\ UNCHANGED <<dir, mode, handles, on, call, answer>>

Init ==
  /\ data = IF dir THEN <<>> ELSE InitialData
  /\ position = [h \in Handles |-> 0]
  /\ offset   = [h \in Handles |-> 0]
  /\ closed   = [h \in Handles |-> FALSE]
  /\ call     = [t \in Threads |-> NoCall]
  /\ answer   = [t \in Threads |-> None]

Next == Outside \/ \E t \in Threads : Ask(t) \/ Take(t) \/ Deliver(t)

Spec == Init /\ [][Next]_vars
=============================================================================
