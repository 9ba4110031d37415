------------------------------- MODULE MockFS -------------------------------
(***************************************************************************)
(* mockfs.go: NewMockFS with its File and Dir options, and then the calls  *)
(* that goroutines make on the MockFS at the same time.                    *)
(*                                                                         *)
(* A call checks its path, asks the error injector, sleeps in the latency  *)
(* simulator, does its work under the lock of the file system and records  *)
(* its outcome in a deferred call.  Open, ReadDir and Sub take the lock    *)
(* twice, Stat reads the entry after it has given the lock back, ReadFile  *)
(* and MarkNonExistent are several calls.  A step is what no other         *)
(* goroutine can come between: a section under the lock, or one call of    *)
(* the injector or of the statistics.  What the sections do to the tree is *)
(* FileTree; a Rename keeps the lock for the steps of its loop.            *)
(*                                                                         *)
(* A definition called "wrong" in its comment is not part of the model: it *)
(* is the next one with a mistake in it, which some property must notice.  *)
(***************************************************************************)
EXTENDS PathMatcher, FiniteSets

CONSTANTS
  MaxDepth, MaxSize, None, CreateIfMissing, WriteMode,  \* as in FileTree
  Threads,     \* goroutines that share the file system
  BadPath,     \* a path that fs.ValidPath refuses
  Calls,       \* the calls that the goroutines make
  RuleArgs,    \* the rules that they add
  MaxOptions,  \* bound: File and Dir options given to NewMockFS
  MaxCalls     \* bound: calls and changes of the rules, by the number of options

VARIABLES
  files, moving,  \* as in FileTree
  phase,          \* NewMockFS: "build", then "ready", or "failed" after a bad option
  buildCtx,       \* MockFS.buildCtx
  nest,           \* the Dir options being applied: their names and callerCtx
  options,        \* options applied so far
  written,        \* history: the tree as the nesting of the options shows it
  rules,          \* what is in the error injector
  stats,          \* MockFS.stats
  pc,             \* where each goroutine is in its call
  call,           \* its call
  held,           \* the entry that Stat looked up, once the map has lost it
  answer,         \* what the call will return
  made,           \* calls and changes of the rules so far
  checked,        \* history: the rules that the call's check, or its clone, saw
  dealt,          \* history: the errors that the injector gave the call
  seen,           \* history: the trees there have been since the call began
  tally           \* history: the outcomes that callers have been told

Tree == INSTANCE FileTree

\* The fields of an ErrorRule that its callers see the effects of.
IsRule(r) ==
  /\ r = [op |-> r.op, match |-> r.match, always |-> r.always, err |-> r.err]
  /\ IsMatcher(r.match)

\* The operations; MarkNonExistent hides the error of an invalid path, and nobody
\* calls it with one.
Listed    == {"Open", "ReadDir", "Sub"}
Simulated == {"Stat", "Open", "ReadDir", "Mkdir", "MkdirAll", "Remove", "RemoveAll",
              "Rename", "Write"}
Direct    == {"AddFile", "AddDir", "RemoveEntry", "MarkNonExistent", "Sub"}
Looking   == {"Stat", "Open", "ReadFile", "ReadDir", "Sub"}

IsCall(c) ==
  /\ c = [op |-> c.op, path |-> c.path, to |-> c.to, size |-> c.size]
  /\ c.op \in Simulated \cup Direct \cup {"ReadFile"}
  /\ {c.path, c.to} \subseteq Tree!Paths \cup {BadPath}
  /\ c.op = "MarkNonExistent" => c.path # BadPath
  /\ c.size \in 0 .. MaxSize

\* Those of FileTree, and the ones of the calls.
ASSUME MockFSAssumption ==
  /\ Dot \notin Names
  /\ MaxDepth \in Nat \ {0} /\ MaxSize \in Nat
  /\ None \notin [dir : BOOLEAN, size : Nat] \cup Tree!Trees
  /\ CreateIfMissing \in BOOLEAN
  /\ WriteMode \in {"readOnly", "overwrite", "append"}
  /\ IsFiniteSet(Threads)
  /\ BadPath \notin Tree!Paths
  /\ MaxOptions \in Nat
  /\ MaxCalls \in [0 .. MaxOptions -> Nat]
  /\ \A c \in Calls : IsCall(c)
  /\ \A r \in RuleArgs : IsRule(r)

treeVars  == <<files, moving>>
buildVars == <<phase, buildCtx, nest, options, written>>
callVars  == <<call, held, made, checked>>
vars == <<treeVars, buildVars, rules, stats, pc, callVars, answer, dealt, seen, tally>>

-----------------------------------------------------------------------------
(* NewMockFS *)

\* path.Join(m.buildCtx, name), or the name itself under ".".
InContext(x) == Tree!Child(buildCtx, x)

\* The place where an option stands: the names of the Dir options around it.
Written(x) == [k \in 1 .. Len(nest) |-> nest[k].name] \o <<x>>

\* An option puts its entry where the context is, and looks at nothing: not at
\* what is there already, nor at what is below that.
Put(x, entry) ==
  /\ phase = "build" /\ options < MaxOptions
  /\ Len(nest) < MaxDepth
  /\ files' = [files EXCEPT ![InContext(x)] = entry]
  /\ written' = [written EXCEPT ![Written(x)] = entry]
  /\ options' = options + 1

OthersIdle == UNCHANGED <<moving, rules, stats, pc, callVars, answer, dealt, seen, tally>>

FileOption(x) ==
  /\ Put(x, Tree!File(0))
  /\ UNCHANGED <<phase, buildCtx, nest>>
  /\ OthersIdle

\* Dir up to its children, who are applied with its path as the context.
DirOption(x) ==
  /\ Put(x, Tree!Dir)
  /\ nest' = Append(nest, [name |-> x, callerCtx |-> buildCtx])
  /\ buildCtx' = InContext(x)
  /\ UNCHANGED phase
  /\ OthersIdle

\* Wrong: the context is not the caller's again.
DirReturnsInPlace ==
  /\ phase = "build" /\ nest # <<>>
  /\ nest' = Tree!Seqs!Front(nest)
  /\ UNCHANGED <<files, phase, buildCtx, options, written>>
  /\ OthersIdle

\* The deferred assignment after the last child.
DirReturns ==
  /\ phase = "build" /\ nest # <<>>
  /\ buildCtx' = Tree!Seqs!Last(nest).callerCtx
  /\ nest' = Tree!Seqs!Front(nest)
  /\ UNCHANGED <<files, phase, options, written>>
  /\ OthersIdle

\* An empty or composite name, bad contents or an argument of another type:
\* every Dir around the option returns the error, and so does NewMockFS.
BadOption ==
  /\ phase = "build" /\ options < MaxOptions
  /\ phase' = "failed"
  /\ buildCtx' = Here /\ nest' = <<>>
  /\ UNCHANGED <<files, options, written>>
  /\ OthersIdle

\* NewMockFS returns.
Built ==
  /\ phase = "build" /\ nest = <<>>
  /\ phase' = "ready"
  /\ UNCHANGED <<files, buildCtx, nest, options, written>>
  /\ OthersIdle

Build == \/ \E x \in Names : FileOption(x) \/ DirOption(x)
         \/ DirReturns \/ BadOption \/ Built

-----------------------------------------------------------------------------
(* The error injector, as its callers see it.  ErrorInjector has its rules  *)
(* one by one; here a rule that does not fail always may fail any call.     *)

\* An error is the operation that reports it and what it reports.
Error(op, why) == {<<op, why>>}

Applying(R, op, p) == {r \in R : r.op \in {op, "any"} /\ Matches(r.match, p)}

\* What CheckAndApply may return; {} is nil.
Outcomes(R, op, p) ==
  {Error(op, r.err) : r \in Applying(R, op, p)}
    \cup {e \in {{}} : \A r \in Applying(R, op, p) : ~r.always}

RulesForSub(R, d) == {[r EXCEPT !.match = MatcherForSub(@, d)] : r \in R}

\* The rule that MarkNonExistent adds for all operations.
Mark(p) == [op |-> "any", match |-> Pattern({p}, Here), always |-> TRUE, err |-> "ErrNotExist"]

-----------------------------------------------------------------------------
(* Calls *)

NoAnswer == [err |-> {}, entry |-> None, names |-> {}, sub |-> None, rules |-> {}]
NoCall   == [op |-> "none", path |-> Here, to |-> Here, size |-> 0]

At(t, l)   == pc[t] = l
Goto(t, l) == pc' = [pc EXCEPT ![t] = l]
Op(t)      == call[t].op
Path(t)    == call[t].path

Reply(t, a) == answer' = [answer EXCEPT ![t] = a]
Fail(t, e)  == Reply(t, [NoAnswer EXCEPT !.err = e])

\* Every goroutine in a call sees the tree that is there after the step.
SeenAfter == seen' = [t \in Threads |-> IF At(t, "idle") THEN {} ELSE seen[t] \cup {Tree!tree'}]

\* The map loses its entries at S: who has looked one up keeps it as it is.
Lose(S) == held' = [t \in Threads |->
  IF At(t, "fields") /\ held[t] = None /\ Path(t) \in S THEN files[Path(t)] ELSE held[t]]

\* Wrong: a failure that is injected is not returned.
InjectedIgnored(t, op, p, l) ==
  \E e \in Outcomes(rules, op, p) :
    /\ dealt' = [dealt EXCEPT ![t] = @ \cup e]
    /\ Goto(t, l) /\ UNCHANGED answer

\* CheckAndApply, and the latency if it lets the call pass; the call goes on at l.
Injected(t, op, p, l) ==
  \E e \in Outcomes(rules, op, p) :
    /\ dealt' = [dealt EXCEPT ![t] = @ \cup e]
    /\ IF e # {} THEN Goto(t, IF Op(t)' = "ReadFile" THEN "opened" ELSE "return") /\ Fail(t, e)
       ELSE Goto(t, l) /\ UNCHANGED answer

MoreCalls == phase = "ready" /\ made < MaxCalls[options]

MayBegin(t) == MoreCalls /\ At(t, "idle")

Begin(t, c) ==
  /\ call' = [call EXCEPT ![t] = c]
  /\ made' = made + 1
  /\ checked' = [checked EXCEPT ![t] = rules]
  /\ seen' = [seen EXCEPT ![t] = {Tree!tree}]
  /\ UNCHANGED <<treeVars, buildVars, rules, stats, held, tally>>

\* The name under which the path of a call is validated.
ErrorOp(op) == IF op = "ReadFile" THEN "Read" ELSE op

\* A path that is refused before anything else is done.
Refused(c) == BadPath \in {c.path, c.to} \/ (c.op = "Mkdir" /\ c.path = Here)

BeginRefused(t) == MayBegin(t) /\ \E c \in Calls :
  /\ Refused(c)
  /\ Begin(t, c)
  /\ Goto(t, "return") /\ Fail(t, Error(ErrorOp(c.op), "ErrInvalid"))
  /\ UNCHANGED dealt

\* ReadFile starts with an Open.
BeginSimulated(t) == MayBegin(t) /\ \E c \in Calls :
  /\ ~Refused(c) /\ c.op \in Simulated \cup {"ReadFile"}
  /\ Begin(t, c)
  /\ Injected(t, IF c.op = "ReadFile" THEN "Open" ELSE c.op, c.path, "lock")

\* No injection, latency or statistics.
BeginDirect(t) == MayBegin(t) /\ \E c \in Calls :
  /\ ~Refused(c) /\ c.op \in Direct
  /\ Begin(t, c)
  /\ Goto(t, IF c.op = "Sub" /\ c.path = Here THEN "return" ELSE "lock")
  /\ UNCHANGED <<answer, dealt>>

-----------------------------------------------------------------------------
(* Calls that look: the first section under the lock *)

Section(t, ops) == At(t, "lock") /\ Op(t) \in ops /\ Tree!Unlocked

Unchanged == UNCHANGED <<treeVars, buildVars, rules, stats, callVars, dealt, seen, tally>>

\* The look-up.  Open and ReadFile of a directory list it too.
LookUp(t) ==
  LET reading == Op(t) = "ReadFile"
  IN /\ Section(t, Looking)
     /\ IF ~Tree!Exists(files, Path(t))
          THEN /\ Fail(t, Error(IF reading THEN "Open" ELSE Op(t), "ErrNotExist"))
               /\ Goto(t, IF reading THEN "opened" ELSE "return")
        ELSE IF Op(t) = "Stat" THEN Goto(t, "fields") /\ UNCHANGED answer
        ELSE IF Tree!IsDir(files, Path(t)) THEN Goto(t, "list") /\ UNCHANGED answer
        ELSE IF Op(t) \in {"ReadDir", "Sub"}
          THEN Fail(t, Error(Op(t), "ErrNotDir")) /\ Goto(t, "return")
        ELSE /\ Reply(t, [NoAnswer EXCEPT !.entry = Tree!File(0)])
             /\ Goto(t, IF reading THEN "opened" ELSE "return")
     /\ Unchanged

\* Stat reads the fields of the entry it has looked up, with no lock: the entry
\* in the map, as changed by a WriteFile, or the one that the map has lost.
ReadFields(t) ==
  /\ At(t, "fields")
  /\ Reply(t, [NoAnswer EXCEPT !.entry = IF held[t] = None THEN files[Path(t)] ELSE held[t]])
  /\ Goto(t, "return")
  /\ Unchanged

\* Wrong: the entries are collected without the lock.
ListUnlocked(t) ==
  /\ At(t, "list") /\ Op(t) # "Sub"
  /\ Reply(t, [NoAnswer EXCEPT !.entry = IF Op(t) = "ReadDir" THEN None ELSE Tree!Dir,
                               !.names = Tree!ListDir(files, Path(t))])
  /\ Goto(t, IF Op(t) = "ReadFile" THEN "opened" ELSE "return")
  /\ Unchanged

\* The second section of ReadDir, and of Open for its handle.
List(t) ==
  /\ At(t, "list") /\ Op(t) # "Sub" /\ Tree!Unlocked
  /\ Reply(t, [NoAnswer EXCEPT !.entry = IF Op(t) = "ReadDir" THEN None ELSE Tree!Dir,
                               !.names = Tree!ListDir(files, Path(t))])
  /\ Goto(t, IF Op(t) = "ReadFile" THEN "opened" ELSE "return")
  /\ Unchanged

\* Wrong: the sub file system gets the rules as they are.
CopyWithRules(t) ==
  LET d == Path(t)
  IN /\ At(t, "list") /\ Op(t) = "Sub" /\ Tree!Unlocked
     /\ Reply(t, [NoAnswer EXCEPT !.sub = Tree!SubTree([files EXCEPT ![d] = Tree!Dir], d),
                                  !.rules = rules])
     /\ checked' = [checked EXCEPT ![t] = rules]
     /\ Goto(t, "return")
     /\ UNCHANGED <<treeVars, buildVars, rules, stats, call, held, made, dealt, seen, tally>>

\* The second section of Sub: the entries below the directory are copied, the
\* directory itself is as it was looked up, and the injector is cloned.
Copy(t) ==
  LET d == Path(t)
  IN /\ At(t, "list") /\ Op(t) = "Sub" /\ Tree!Unlocked
     /\ Reply(t, [NoAnswer EXCEPT !.sub = Tree!SubTree([files EXCEPT ![d] = Tree!Dir], d),
                                  !.rules = RulesForSub(rules, d)])
     /\ checked' = [checked EXCEPT ![t] = rules]
     /\ Goto(t, "return")
     /\ UNCHANGED <<treeVars, buildVars, rules, stats, call, held, made, dealt, seen, tally>>

-----------------------------------------------------------------------------
(* Calls that change the tree *)

\* The end of a section that may change the tree: err is what it reports, and lost
\* are the keys that, if it succeeds, no longer have the entries they had.
EndSection(t, err, lost, l) ==
  /\ Fail(t, IF err = "nil" THEN {} ELSE Error(Op(t), err))
  /\ Goto(t, l)
  /\ Lose(IF err = "nil" THEN lost ELSE {})
  /\ SeenAfter
  /\ UNCHANGED <<buildVars, rules, stats, call, made, checked, dealt, tally>>

Mkdir(t) ==
  /\ Section(t, {"Mkdir"})
  /\ Tree!Mkdir(Path(t))
  /\ EndSection(t, Tree!MkdirErr(files, Path(t)), {}, "return")

MkdirAll(t) ==
  /\ Section(t, {"MkdirAll", "AddDir"})
  /\ Tree!MkdirAll(Path(t))
  /\ EndSection(t, Tree!MkdirAllErr(files, Path(t)), {}, "return")

\* A file that was there is replaced by a new one.
AddFile(t) ==
  /\ Section(t, {"AddFile"})
  /\ Tree!AddFile(Path(t), call[t].size)
  /\ EndSection(t, Tree!AddFileErr(files, Path(t)), {Path(t)}, "return")

Remove(t) ==
  /\ Section(t, {"Remove"})
  /\ Tree!Remove(Path(t))
  /\ EndSection(t, Tree!RemoveErr(files, Path(t)), {Path(t)}, "return")

\* MarkNonExistent removes the entry in this way first.
RemoveAll(t) ==
  /\ Section(t, {"RemoveAll", "RemoveEntry", "MarkNonExistent"})
  /\ Tree!RemoveAll(Path(t))
  /\ EndSection(t, "nil", {Path(t)} \cup Tree!Under[Path(t)],
                IF Op(t) = "MarkNonExistent" THEN "mark" ELSE "return")

\* The entry that is there is changed in place.
WriteFile(t) ==
  /\ Section(t, {"Write"})
  /\ Tree!WriteFile(Path(t), call[t].size)
  /\ EndSection(t, Tree!WriteFileErr(files, Path(t)), {}, "return")

RenameNothing(t) ==
  /\ Section(t, {"Rename"})
  /\ ~Tree!Exists(files, Path(t))
  /\ UNCHANGED treeVars
  /\ EndSection(t, "ErrNotExist", {}, "return")

RenameOne(t) ==
  /\ Section(t, {"Rename"})
  /\ Tree!RenameOne(Path(t), call[t].to)
  /\ EndSection(t, "nil", {Path(t), call[t].to}, "return")

RenameBegin(t) ==
  /\ Section(t, {"Rename"})
  /\ Tree!RenameBegin(Path(t), call[t].to)
  /\ EndSection(t, "nil", {call[t].to}, "moving")

RenameVisit(t) == At(t, "moving") /\ \E q \in Tree!Keys :
  /\ Tree!RenameVisit(q)
  /\ EndSection(t, "nil", {q, Tree!Rebase(q, Path(t), call[t].to)}, "moving")

RenameEnd(t) ==
  /\ At(t, "moving")
  /\ Tree!RenameEnd
  /\ EndSection(t, "nil", {Path(t)}, "return")

Change(t) ==
  \/ Mkdir(t) \/ MkdirAll(t) \/ AddFile(t) \/ Remove(t) \/ RemoveAll(t) \/ WriteFile(t)
  \/ RenameNothing(t) \/ RenameOne(t) \/ RenameBegin(t) \/ RenameVisit(t) \/ RenameEnd(t)

-----------------------------------------------------------------------------
(* The rest of ReadFile and of MarkNonExistent, and the rules *)

\* The second half of MarkNonExistent, with no lock in between.
AddMark(t) ==
  /\ At(t, "mark")
  /\ rules' = rules \cup {Mark(Path(t))}
  /\ Goto(t, "return")
  /\ UNCHANGED <<treeVars, buildVars, stats, callVars, answer, dealt, seen, tally>>

\* StatsRecorder.Record
Recorded(s, op, failed) ==
  [s EXCEPT ![op] = [total   |-> @.total + 1,
                     failure |-> @.failure + IF failed THEN 1 ELSE 0]]

\* Open, called by ReadFile, records its outcome and returns.
Opened(t) ==
  /\ At(t, "opened")
  /\ stats' = [stats EXCEPT !["Open"] = Recorded(stats, "Open", answer[t].err # {})["Open"]]
  /\ Goto(t, IF answer[t].err # {} THEN "return" ELSE "read")
  /\ UNCHANGED <<treeVars, buildVars, rules, callVars, answer, dealt, seen, tally>>

\* io.ReadAll ends with a Read that fails or reports the end of the file; the
\* Reads before it, each of which asks the injector, change nothing here.
ReadAll(t) == \E e \in Outcomes(rules, "Read", Path(t)) :
  /\ At(t, "read")
  /\ dealt' = [dealt EXCEPT ![t] = @ \cup e]
  /\ Fail(t, e)
  /\ Goto(t, "close")
  /\ UNCHANGED <<treeVars, buildVars, rules, stats, callVars, seen, tally>>

\* Wrong: the error of Close is only looked at after a good read.
JoinedFirst(err, closeErr) == IF err # {} THEN err ELSE closeErr

\* The deferred Close of ReadFile: errors.Join.
Joined(err, closeErr) == err \cup closeErr

CloseFile(t) == \E e \in Outcomes(rules, "Close", Path(t)) :
  /\ At(t, "close")
  /\ dealt' = [dealt EXCEPT ![t] = @ \cup e]
  /\ Fail(t, Joined(answer[t].err, e))
  /\ Goto(t, "return")
  /\ UNCHANGED <<treeVars, buildVars, rules, stats, callVars, seen, tally>>

\* Wrong: the deferred call sees the error of the lock's section only.
DeferredRecordOfSection(t) ==
  IF Op(t) \in Simulated THEN Recorded(stats, Op(t), answer[t].err \ dealt[t] # {}) ELSE stats

\* The deferred Record; ReadFile and the calls without simulation have none.
DeferredRecord(t) ==
  IF Op(t) \in Simulated THEN Recorded(stats, Op(t), answer[t].err # {}) ELSE stats

\* What the caller is told: the outcome of the call, or of ReadFile's Open.
Told(t) ==
  LET op == IF Op(t) = "ReadFile" THEN "Open" ELSE Op(t)
  IN IF op \in Simulated /\ ~(Op(t) = "ReadFile" /\ Refused(call[t]))
       THEN Recorded(tally, op, \E w \in answer[t].err : w[1] = op) ELSE tally

Return(t) ==
  /\ At(t, "return")
  /\ stats' = DeferredRecord(t)
  /\ tally' = Told(t)
  /\ Goto(t, "idle")
  /\ call' = [call EXCEPT ![t] = NoCall]
  /\ held' = [held EXCEPT ![t] = None]
  /\ answer' = [answer EXCEPT ![t] = NoAnswer]
  /\ checked' = [checked EXCEPT ![t] = {}]
  /\ dealt' = [dealt EXCEPT ![t] = {}]
  /\ seen' = [seen EXCEPT ![t] = {}]
  /\ UNCHANGED <<treeVars, buildVars, rules, made>>

\* FailStat .. FailRenameOnce, and the injector's own methods.
AddRule == \E r \in RuleArgs :
  /\ MoreCalls
  /\ rules' = rules \cup {r}
  /\ made' = made + 1
  /\ UNCHANGED <<treeVars, buildVars, stats, pc, call, held, checked, answer, dealt, seen, tally>>

ClearErrors ==
  /\ MoreCalls /\ rules # {}
  /\ rules' = {}
  /\ made' = made + 1
  /\ UNCHANGED <<treeVars, buildVars, stats, pc, call, held, checked, answer, dealt, seen, tally>>

-----------------------------------------------------------------------------

NoOutcomes == [op \in Simulated |-> [total |-> 0, failure |-> 0]]

Init ==
  /\ Tree!Init
  /\ phase = "build" /\ buildCtx = Here /\ nest = <<>> /\ options = 0
  /\ written = files
  /\ rules = {} /\ stats = NoOutcomes /\ tally = NoOutcomes
  /\ pc = [t \in Threads |-> "idle"]
  /\ call = [t \in Threads |-> NoCall]
  /\ held = [t \in Threads |-> None]
  /\ answer = [t \in Threads |-> NoAnswer]
  /\ made = 0
  /\ checked = [t \in Threads |-> {}]
  /\ dealt = [t \in Threads |-> {}]
  /\ seen = [t \in Threads |-> {}]

Step(t) ==
  \/ BeginRefused(t) \/ BeginSimulated(t) \/ BeginDirect(t)
  \/ LookUp(t) \/ ReadFields(t) \/ List(t) \/ Copy(t)
  \/ Change(t)
  \/ AddMark(t) \/ Opened(t) \/ ReadAll(t) \/ CloseFile(t) \/ Return(t)

\* Nobody is in a call, and the bounds allow no other.
Done ==
  /\ phase # "build" /\ ~MoreCalls
  /\ \A t \in Threads : At(t, "idle")
  /\ UNCHANGED vars

Next == Build \/ (\E t \in Threads : Step(t)) \/ AddRule \/ ClearErrors \/ Done

Spec == Init /\ [][Next]_vars

-----------------------------------------------------------------------------
(* Properties *)

Labels == {"idle", "lock", "fields", "list", "moving", "mark", "opened", "read", "close",
           "return"}

\* Types; the context of the options is always a path that they may fill, and
\* the lock is kept between steps by the one Rename that is in its loop.
TypeOK ==
  /\ files \in Tree!Trees
  /\ phase \in {"build", "ready", "failed"}
  /\ buildCtx \in Tree!Paths /\ Len(nest) <= MaxDepth /\ options \in 0 .. MaxOptions
  /\ \A op \in Simulated : stats[op].failure \in 0 .. stats[op].total
  /\ pc \in [Threads -> Labels]
  /\ \A t \in Threads : call[t] \in Calls \cup {NoCall}
  /\ held \in [Threads -> Tree!Entries \cup {None}]
  /\ made \in 0 .. MaxCalls[options]
  /\ Cardinality({t \in Threads : At(t, "moving")}) = IF Tree!Unlocked THEN 0 ELSE 1

\* While NewMockFS applies its options, each entry is where the nesting of the
\* Dir options around it shows it, however they are nested and ordered: a Dir
\* gives its caller's context back.
BuiltWhereWritten == phase = "build" => files = written

Failed(c, why) == [NoAnswer EXCEPT !.err = IF why = "nil" THEN {} ELSE Error(c.op, why)]

\* What a call finds in the tree w when its path was a directory.
OfDirectory(c, w) ==
  LET p == c.path
  IN CASE c.op = "Open"    -> [NoAnswer EXCEPT !.entry = Tree!Dir, !.names = Tree!ListDir(w, p)]
       [] c.op = "ReadDir" -> [NoAnswer EXCEPT !.names = Tree!ListDir(w, p)]
       [] c.op = "Sub"     ->
            [NoAnswer EXCEPT !.sub = Tree!SubTree([w EXCEPT ![p] = Tree!Dir], p)]

\* The same call, done in one step on the tree v.
Found(c, v) ==
  LET p == c.path
  IN IF ~Tree!Exists(v, p) THEN Failed(c, "ErrNotExist")
     ELSE IF c.op = "Stat" THEN [NoAnswer EXCEPT !.entry = v[p]]
     ELSE IF Tree!IsDir(v, p) THEN OfDirectory(c, v)
     ELSE IF c.op = "Open" THEN [NoAnswer EXCEPT !.entry = Tree!File(0)]
     ELSE Failed(c, "ErrNotDir")

Atomic(c, v) ==
  LET p == c.path
  IN CASE c.op \in Looking ->
            IF c.op = "Sub" /\ p = Here THEN NoAnswer ELSE Found(c, v)
       [] c.op = "Mkdir" -> Failed(c, Tree!MkdirErr(v, p))
       [] c.op \in {"MkdirAll", "AddDir"} -> Failed(c, Tree!MkdirAllErr(v, p))
       [] c.op = "AddFile" -> Failed(c, Tree!AddFileErr(v, p))
       [] c.op = "Remove" -> Failed(c, Tree!RemoveErr(v, p))
       [] c.op = "Rename" -> Failed(c, IF Tree!Exists(v, p) THEN "nil" ELSE "ErrNotExist")
       [] c.op = "Write" -> Failed(c, Tree!WriteFileErr(v, p))
       [] c.op \in {"RemoveAll", "RemoveEntry", "MarkNonExistent"} -> NoAnswer

\* What a call asks of the tree: ReadFile what its Open does.
Asked(c) == IF c.op = "ReadFile" THEN [c EXCEPT !.op = "Open"] ELSE c

\* The same answer, but for the rules.
Same(a, b) == a.err = b.err /\ a.entry = b.entry /\ a.names = b.names /\ a.sub = b.sub

\* The answer told comes from one of the trees S, or, when the directory is gone by
\* the second section, from what is left below it then.
FromOneOf(c, told, S) ==
  \/ \E v \in S : Same(told, Atomic(c, v))
  \/ /\ c.op \in Listed
     /\ \E v, w \in S : /\ Tree!IsDir(v, c.path) /\ ~Tree!IsDir(w, c.path)
                        /\ Same(told, OfDirectory(c, w))

\* Where a call has its answer from the tree, and was not failed on purpose.
Answered(t) ==
  /\ At(t, "opened") \/ (At(t, "return") /\ Op(t) # "ReadFile")
  /\ dealt[t] = {} /\ ~Refused(call[t])

\* A call that was not failed on purpose answers as it would have done in one
\* step at some moment between its start and its end, though it uses the tree
\* in two sections and an entry after its unlock.  The one exception is a
\* directory that is gone by the second section: Open, ReadDir and Sub then
\* succeed, with what is left below it.
AnswersFromOneVersion == \A t \in Threads :
  Answered(t) => FromOneOf(Asked(call[t]), answer[t], seen[t])

\* Every failure that the injector gave to a part of a call is in the error that
\* the call returns, for ReadFile those of its Open, its Reads and its Close.
ErrorsReported == \A t \in Threads :
  At(t, "return") =>
    /\ dealt[t] \subseteq answer[t].err
    /\ Op(t) # "ReadFile" /\ dealt[t] # {} => answer[t] = [NoAnswer EXCEPT !.err = dealt[t]]

\* The Opens of ReadFile that are recorded already.
Reading(t) == Op(t) = "ReadFile" /\ pc[t] \in {"read", "close", "return"} /\ ~Refused(call[t])
OpenFailed(t) == \E w \in answer[t].err : w[1] = "Open"

\* The statistics of the file system are the outcomes that its callers have been
\* told: each simulated call once, as failed just when it returns an error, a
\* refused path and an injected failure included, and of a ReadFile its Open.
CallsCounted == \A op \in Simulated :
  LET opens(S) == IF op = "Open" THEN Cardinality(S) ELSE 0
  IN /\ stats[op].total = tally[op].total + opens({t \in Threads : Reading(t)})
     /\ stats[op].failure =
          tally[op].failure + opens({t \in Threads : Reading(t) /\ OpenFailed(t)})

\* The steps that t has just made.
Moved(t) == pc'[t] # pc[t] \/ (At(t, "moving") /\ moving' # moving)

\* What MarkNonExistent has taken away comes back only by a call that the mark
\* does not reach: one that had asked the injector before the mark was there,
\* one that asks for another path, as a MkdirAll of a path below and a Rename
\* to the marked path do, or one that asks for none, like AddFile.
MarkedStaysGone ==
  [][\A p \in Tree!Paths :
       Mark(p) \in rules /\ ~Tree!Exists(files, p) /\ Tree!Exists(files', p) =>
         \E t \in Threads :
           /\ Moved(t)
           /\ Op(t) \in Direct \/ Path(t) # p \/ Mark(p) \notin checked[t]]_vars

\* Whether a call fails for sure, and whether it may.
Fails(R, op, p) == <<{} \notin Outcomes(R, op, p), Outcomes(R, op, p) # {{}}>>

\* In the file system that Sub has returned, every call is failed like the same
\* call on the parent, with the rules that the parent had when they were cloned;
\* so it is in the file systems that its own Sub returns, clones of clones.
SubFailsAlike == \A t \in Threads :
  At(t, "return") /\ answer[t].sub # None =>
    \A op \in {"Open", "Close"}, p, e \in Tree!Paths :
      LET whole == Fails(checked[t], op, Join(Path(t), Join(e, p)))
      IN /\ Fails(RulesForSub(answer[t].rules, e), op, p) = whole
         /\ Fails(answer[t].rules, op, Join(e, p)) = whole
=============================================================================
