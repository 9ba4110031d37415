# go-mockfs in TLA+

go-mockfs is an in-memory file system for Go tests. A `MockFS` keeps a flat map
from paths to entries, hands out `MockFile` handles on them, and can be told to
fail calls (`ErrorInjector`), to delay them (`LatencySimulator`) and to count
them (`StatsRecorder`). It promises to be safe for concurrent use, so a test may
call all of it from several goroutines. These modules model the parts where
order, sharing and failure matter, check them with TLC, and prove what can be
proved with TLAPS. `PROJECT.json` has the lines of code that each definition
stands for.

## Inventory

| Component | State | Operations | What makes it correct |
|---|---|---|---|
| Error injector (`error.go`) | lists of rules per operation, under an `RWMutex`; in each rule the atomics `usedOnce` and `hits` | `Add...`, `Add...ForAllOps`, `GetAll`, `Clear`, `CloneForSub`, `CheckAndApply` | an error is given as often as its mode says, by the first rule that applies, never through a rule object of another list; no call keeps a lock |
| File tree (`mockfs.go`) | the map `files` under an `RWMutex`; `createIfMissing`, `writeMode` | `Mkdir`, `MkdirAll`, `AddFile`, `AddDir`, `Remove`, `RemoveAll`, `RemoveEntry`, `Rename`, `WriteFile`, listings, `Sub` | the map behaves as a tree: a call is one change, a directory lists its entries, entries keep their parents |
| MockFS calls (`mockfs.go`) | none of their own | validation, injection, latency, locked section, statistics, in this order; `Open`, `ReadDir`, `Sub` use two locked sections, `Stat` reads after its unlock, `ReadFile` and `MarkNonExistent` are several calls | each call is recorded once, as what its caller is told; no injected failure is lost; what is returned is from one version of the tree |
| File handles (`mockfile.go`) | position, closed, directory offset, under a one-token channel; the `MapFile` is shared with other handles and not locked | `Read`, `ReadAt`, `Write`, `WriteAt`, `Seek`, `ReadDir`, `Stat`, `Close` | each call is atomic, is counted once, gives the token back on all ways out, panics included |
| Latency (`latency.go`) | `seen` atomics per operation, a ticket channel | `Simulate` with `Once` and `Async`, `Reset`, `Clone` | one sleep for each `Once`, serialized sleeps unless `Async` |
| Statistics (`stats.go`) | totals, failures, bytes under an `RWMutex` | `Record`, `Set`, `SetBytes`, `Reset`, `Snapshot`; `NewStatsRecorder`, `Delta`, `Equal` of another `Stats`; assertions | failures never exceed totals, snapshots are consistent, and a reading of a recorder that changes is still about what it has held |
| Matchers (`pathmatcher.go`) | immutable | `Matches`, `CloneForSub` | a clone matches a path of the sub tree exactly when the original matches the joined path |
| Build options (`mockfs.go`) | `buildCtx` while `NewMockFS` runs | `File`, `Dir`, `With...` | nested `Dir` options fill the directory they are written in |
| `fileinfo.go` | immutable | accessors | nothing to model |

How they interact: a `MockFS` call asks the injector, sleeps in the simulator,
takes the tree's lock and records in the `MockFS` statistics. A call on a handle
does this under the handle's token, with statistics of its own and the same
injector as the `MockFS`; it writes to the same `MapFile` as the tree's
`WriteFile` and other handles of the path. `Sub` copies the tree and clones the
injector, so that the two share nothing afterwards.

The hard behaviours: scans that advance shared counters under a read lock;
`RWMutex` writers that wait for readers and keep out new ones; handles with
different locks on one `MapFile`; a map changed by the loop that ranges over it;
two locked sections in one call, and an entry that is used after the lock has
been given back; a recorder that is read field by field while it changes; a
simulator that is reset while others sleep in it; integer overflow in offsets;
panics inside a locked section.

## Modules

**`ErrorInjector`** is one goroutine step per lock operation and per rule that a
scan looks at. `made`, `rules`, `usedOnce`, `hits` are the rule objects, with
numbers for pointers: a number in two lists is a shared object. `configs`,
`live` are the injectors. `readers`, `writer` are the mutexes: `Announce` is the
call of `Lock`, after which no reader enters, and a `Write` action is the
critical section to its `Unlock`. `CallCheck`, `EnterCheck`, `ScanRule`,
`ScanEnd`, `ReturnCheck` are `CheckAndApply`; `AddNew` stands for `AddExact`,
`AddGlob`, `AddRegexp`, `AddAll` and the `FailX` methods, which differ in the
matcher only, and a matcher is the set of paths it matches. `AddShared` is `Add`
of a rule that `GetAll` has returned. `checks`, `writes`, `returned`, `passed`,
`shared` are history. `MaxRules`, `MaxChecks` and `MaxWrites` are bounds.

**`FileTree`** is the map and everything that changes it, a step per operation
since each one holds the write lock. A path is a sequence of names. The keys
include those like `./a` that a `Rename` of a directory to `.` makes and no
caller can name. An entry is a kind and a size. The loop of `Rename` is one step
per iteration (`RenameBegin`, `RenameVisit`, `RenameEnd`): Go lets `range` visit
a map's entries in any order, and visit or skip an entry inserted meanwhile, and
the loop inserts into the map it ranges over. `AddDir` is `MkdirAll`, and
`RemoveEntry` is `RemoveAll`, without injection; errors only show in what an
operation leaves undone. **`AbstractTree`** is the promise: one step per call,
with what a move, a deletion or a new directory means in a tree, where all paths
are inside of the root. It is loose where the code promises nothing, as for a
`Rename` of a directory into itself or above itself, and so for every `Rename` of
the root and to it (`MoveWithin`); there it still asks that no entry is invented,
that the entry leaves the old path, and that the rest is not disturbed.

**`MockFile`** is the handles of one file or directory and the goroutines that
use them, a step per point where another goroutine can come in: taking the
token, the latency, the injection (which fails any call it likes), the
operation, recording, giving the token back. A write that loads the slice and
stores a new one is two or three steps. A panic is an answer whose deferred
calls run. Integers wrap at `MaxInt`; slices longer than `MaxLen` cannot be
allocated. `WriteFile` is that of `MockFS` on the same path, when no handle is
in a call. `tally` is history: what the callers of each handle have been told.
**`AtomicFile`** is what `io.Reader`, `io.ReaderAt`, `io.Seeker`,
`fs.ReadDirFile` and their siblings demand of a handle: each call takes effect
in one step between call and answer.

**`PathMatcher`** has no state: `Matches` and `MatcherForSub` (`CloneForSub`) of
each matcher, for paths that are sequences of names. A pattern is the set of
paths that it matches, and a parent matcher is a pattern with a prefix.

**`MockFS`** composes `FileTree` (as `Tree`), `PathMatcher` and an abstract
injector and recorder. First `NewMockFS` applies options (`Build`): `File` and
`Dir` put entries where `buildCtx` is, `nest` is the stack of `Dir` closures that
are running with the context each will restore. Then goroutines make calls. A
step is what no other goroutine can come between: `Begin...` is validation and
`CheckAndApply`, `LookUp` the first section under the lock, `List` and `Copy` the
second, `ReadFields` what `Stat` reads after its unlock, `Change` the sections of
the calls that write, `Opened`, `ReadAll` and `CloseFile` the rest of `ReadFile`,
`AddMark` the second half of `MarkNonExistent`, `Return` the deferred `Record`.
What a section does to the tree is `FileTree`'s action, so that a `Rename` keeps
the lock for the steps of its loop. `held` is the `MapFile` of a `Stat` that the
map has lost: until then `Stat` sees the changes that `WriteFile` makes in place.
The injector is the set of its rules, each always failing or possibly failing,
which is what `ErrorInjector` shows its callers; the rules of a `Sub` are
`MatcherForSub` of the parent's. `written`, `checked`, `dealt`, `seen` and
`tally` are history. `MaxOptions` and `MaxCalls` are bounds.

**`Latency`** is `Simulate`, `Reset`, `Clone` and the end of `MockFile.Close`, a
step per use of an atomic or of the ticket channel. A sleep ends at some time; it
has no length. `slept`, `skipped` and `cleared` count the outcomes of `Once` and
what `Reset` has cleared. **`Stats`** is one recorder, whose methods are steps
under its lock, and one reader that takes another `Stats` field by field as
`NewStatsRecorder`, `Delta` and `Equal` do; `kept` is a snapshot, or a `Delta`,
which may be negative. Counters are uint64 and go past `MaxInt`, what they show
is clamped to it. `had` is what each field has shown since the reading began.
`MaxSims`, `MaxChanges` and `MaxReadings` are bounds.

The `MC` modules give constants their values; the modules that end in `Proofs`
hold the proofs. Definitions that say "wrong" in their comment are the code with
a mistake in it: each property of a passing run fails with one of them.

## Runs

| Run | Bounds | Shows |
|---|---|---|
| `counters` | 2 goroutines, 2 injectors, 2 operations, 2 paths, 3 rules, 3 checks, 2 writes; a recorder with 2 operations, `MaxInt` = 2, 2 changes, 2 readings | `FireAccounting`, `FirstMatchWins`, `PlacesDisjoint` for every interleaving of scans, additions, sharing and clones; `StatsTypeOK`, `ResultsFromTheCall`, `PanicsOnlyWhenTorn` |
| `waits` | 2 goroutines, 2 simulators, 4 calls, a global duration or one for `Close` only; 3 goroutines on 1 injector, 2 checks, 2 writes | `OneSleeper`, `OnceAccounting`, `EverySleepEnds`; `EveryCallReturns`, under the fairness below |
| `after_successes` | 1 goroutine, 2 rules | violated: `ErrorModeAfterSuccesses` counts calls that another rule fails |
| `file_tree` | 2 names, 2 levels, `createIfMissing` | `ListsChildren`, `OrphanSources`, the refinement of `AbstractTree` |
| `file_tree_deep` | 1 name, 3 levels, sizes 0 and 1 | the same with contents and `Rename` into itself, above itself and to the root, and `SubListsTheSame` |
| `every_name_has_entry` | as `file_tree`, no `createIfMissing` | violated: a `Rename` below a path that does not exist makes a name without an entry |
| `rename_to_itself` | as above | violated: the entry is deleted |
| `root_removed` | as above | violated: the root is removed and what is in it stays |
| `mock_file` | 2 goroutines, 2 handles, 3 calls, all write modes and a directory, arguments on both sides of each boundary | `TicketOfCaller`, `StatsAddUp`, the refinement of `AtomicFile` |
| `mockfs` | 2 goroutines; up to 3 options, then 3 calls after 2 options or 1 call otherwise, of 15 calls on `a`, `a/b` and an invalid path; 2 rules and those of `MarkNonExistent` | `BuiltWhereWritten`, `AnswersFromOneVersion`, `ErrorsReported`, `CallsCounted`, `SubFailsAlike`, `MarkedStaysGone` |
| `lost_append` | 2 goroutines on 2 handles at the same time, 3 calls | violated: an append that reported success is gone |
| `pagination` | 3 calls of `ReadDir` with -1, 1 or `MaxInt` | violated: `offset + n` overflows and the slicing panics |

Why the bounds are enough. Two goroutines in one scan make every race of two
counter operations, and the third check is the one that finds a counter past
its limit; a third rule lets a shared rule, its sibling and a clone exist
together. For liveness three goroutines are needed: a writer that waits, the
reader it waits for and another reader that it keeps out. The tree operations
look at a path, its parent and what is below; two names and two levels give
siblings, replaced entries and orphans, three levels give a moved directory
with something below its children and moves by one level up and down. In
`MockFile` three calls are a change by one goroutine, a change by the other, and
a call that sees both, or open, close and a late call on one handle;
`MaxInt = 15` and `MaxLen = 4` keep apart what fits, what cannot be allocated and
what overflows. In `mockfs` two options make a directory with an entry, which
three calls then look at, move away and replace; a third option is needed for a
`Dir` in a `Dir`, and for a sibling after one. A race in `Latency` takes two
calls of `Once`, a `Close` that resets beside them, and one more to see what that
has done. In `Stats` one change between two reads tears a reading, and a second
comes before it or tears it again; one reading may take the `Delta` that the
other has returned.

`CHECK_DEADLOCK FALSE` is in `counters`, `waits` and `after_successes` only: the
callers there stop when the bounds are reached, and the liveness properties say
that nobody is stuck. `MockFile` and `MockFS` have the step `Done` for this, so
that TLC's deadlock check there finds a call that waits for ever; nothing in
`FileTree` stops.

`counters` and `waits` each check two modules that share nothing, what calls count
and what they wait for: `subject` chooses one of the two for a whole behaviour,
since their interleavings would show nothing new.

Symmetry is used in the safety runs: goroutines, and names of the tree, are
interchangeable, as no definition tells them apart. (`on` starts with an
arbitrary handle, so handles are not declared symmetric.) `waits` has liveness
properties and uses none.

`RefinesTree` has one exception, `RootGoesAlone`. The prefix of what is below `.` is
`./`, which no path begins with, and so `Remove`, `RemoveAll` and `RemoveEntry` of
`.` take the entry of the root and nothing else. Of `AbstractTree` this is neither a
`Delete` (the root is not empty) nor a `DeleteAll` (something stays). The exception
lets exactly this through, beside the removal that takes everything, and
`root_removed` shows the disagreement with the documents.

`OrphanSources` is the honest form of the tree invariant that the repository's
documents state. That an entry's parent is a directory does not hold: a
`WriteFile` with `createIfMissing` and a `Rename` both put an entry at a path
without a look at its parent. The property lists these sources and says that no
other call is one, whatever orphans there are and whatever order `Rename`'s loop
takes.

`RefinesAtomicFile` has the assumption `Synchronized`: callers use one handle of
a path at a time. Without it `lost_append` shows what happens, since each handle
has a lock of its own and the `MapFile` has none. Within one handle there is no
such assumption: two goroutines may use, move and close it as they like.

`AnswersFromOneVersion` is what a caller may rely on though `Open`, `ReadDir` and
`Sub` look a directory up in one section and list it in another: the answer is
that of one moment during the call, with the one exception that the property
names. If the directory goes away between the sections the call succeeds with
what is left below its path, which is nothing unless somebody has put it there
since. The same holds of a `Stat` that reads the entry after the unlock. Other
reads of `Stat`'s fields (size, mode, time) are not atomic together in Go's
memory model; the model has one field that `WriteFile` changes, the size.

`MarkedStaysGone` says what the two halves of `MarkNonExistent` leave open. It
lists the calls that can bring a marked entry back, which is more than the
comment of `MarkNonExistent` names (`AddFile`): a `MkdirAll` of a path below it
and a `Rename` to it are checked under another path, and a call that has passed
its check before the mark is there may act after it. That last one is what the two
halves race for, and the code lets it happen; the property says that nothing more
does, above all that a call checked after the mark is failed.

`OnceAccounting` counts what `Reset` clears. The comment of `Reset` forbids calls of
`Simulate` beside it, but `Close` resets the simulator of its handle while other
handles that share it may be in a call. What this costs is in the property: one
more sleep for each time that a set flag is cleared. It does not call this wrong;
it says that nothing worse happens, no sleep lost and none unaccounted for.

## Fairness

`waits` needs it, for both of its modules. In the injector, a goroutine inside
the critical section goes on (weak fairness: the Go scheduler preempts but does
not drop a runnable goroutine, and scans have no blocking call inside). The
entry of a goroutine into the mutex, `EnterCheck` or `Announce`, has strong
fairness, as what it waits for comes and goes: `sync.RWMutex` says that a
blocked `Lock` excludes new readers, wakes the readers that wait when a writer
unlocks, and its writers queue on a `sync.Mutex` that in starvation mode hands
over to the one waiting longest. No fairness is assumed of callers: nobody has
to make a call. Bounds on calls do not make the property hold by themselves, as
the mutant that keeps a lock shows.

In `Latency` a goroutine inside a call goes on, and its sleep ends (weak
fairness of `Continue`). `TakeTicket` has strong fairness: a Go channel keeps its
waiting receivers in a queue and hands the ticket to the first, so that nobody
is overtaken for ever.

## Proofs

`ErrorInjectorProofs` has two theorems, for any number of goroutines, injectors,
operations, paths, rules and calls, from `InjectorAssumption` (and finitely many
goroutines, because holders are counted).

- `TypeCorrect`: `Spec => []TypeOK`. `TypeOK` is inductive as it stands; lemmas
  give the types of new rules, of the list that a scan goes through, and of the
  numbers that a clone hands out.
- `FiresAsPromised`: `Spec => []FireAccounting`. That a rule has given away what
  its counters say is not inductive alone: a scan could hold a rule that nobody
  has made, or be asked to return a rule it did not take. `AccountInv` adds that
  lists and scans mention only rules that exist, that rules not yet made are
  untouched, and that a goroutine holds a rule just when it is about to return
  it. Each step that changes something it reads is a lemma: a scan that takes an
  error moves `usedOnce` or `hits` and the set of holders together
  (`AccountScan`), a return moves a holder into `returned` (`AccountReturn`), a
  creation starts at zero (`AccountCreate`), and others leave it alone
  (`AccountFrame`).

`ErrorScanProofs` has two more, from the same assumption.

- `FirstRuleWins`: `Spec => []FirstMatchWins`. `OrderInv` is `AccountInv` and, of
  each goroutine, `ScanInv`: a scan holds the read lock of an injector that
  exists, the rules before its place are spent or do not match, and a scan starts
  at the front. No step changes a rule that exists or makes it give an error again
  (`WriteRulesKept`, `CountHitKept`), so what a scan has gone past stays so
  (`PastKept`), and another goroutine's step does no harm while the list stays
  (`OtherScanKept`). For that the lock is needed: a writer finds no readers, so it
  writes to another injector than the one that is scanned. `OwnScan` and
  `OwnCheck` are the steps of the scan itself.
- `RulesKeptApart`: `Spec => []PlacesDisjoint`. The invariant adds to
  `AccountInv` that the rules of two places differ unless they are in `shared`.
  What a new rule or a clone puts in is beyond `made` (`ApartAppend`,
  `ApartClone`), and so in no list yet.

`FileTreeProofs` has five, from `TreeAssumption`, for any number of names and
levels, and the last two also from `NoneAssumption`, which says that the marker
of "no Rename is under way" is not a tree.

- `TreeTyped`: `Spec => []TypeOK`, inductive as it stands. The part with content
  is the loop of `Rename`: what is left to visit exists and is below the old path,
  whatever the loop has inserted (`VisitType`).
- `ListingsRight`: `Spec => []ListsChildren`. It holds of every map, not only of
  those that can be reached, so no invariant is needed; the proof is about
  paths. `KeyForm` and `BelowForm` say what the keys below a directory look like,
  and so which name a listing gets from each (`ListBelow`, `ListRoot`).
- `SubsList`: `Spec => []SubListsTheSame`, which follows from what a listing is,
  before and after the paths are renamed (`JoinForm`, `SubRoot`, `SubBelow`).
- `TreeRefines`: `Spec => RefinesTree`, with the exception of a removal of the root.
  What is inside of a path in `AbstractTree` is what is below it in the code but for
  the root, which has nothing below it that a caller can name (`InsideForm`,
  `UnderRoot`, `RootApart`). The loop of `Rename` shows the tree it
  started from until its last entry, and so the work is to know then what it has
  done. `LoopInv` says of each moment of it that all entries below the two paths
  are entries of the old tree, that the rest has not changed, and, if neither path
  is within the other, exactly which entries have been moved (`Moved`, `Apart`):
  those visited, since the loop inserts nothing it could visit (`ApartRebase`).
  A `Rename` into itself or above itself visits its own entries or not, and there
  the tree promises less, as the code does. `MkdirAll` is the other call with a
  loop: what it makes are the steps to its path (`Reached`).
- `OrphansExplained`: `Spec => OrphanSources`, from the same invariant. The end of
  a `Rename` to a free place moves parents and children together, and each other
  operation keeps or makes the parent of what it adds (`NoNewOrphan`).

`MockFileProofs` has four, from `FileAssumption`:

- `TokenGivenBack`: `Spec => []TicketOfCaller`, for any goroutines, handles and
  calls, panics included. `TokenInv` says the same of one goroutine and one
  handle, with the types of `pc`, `on` and `ticket`. Steps inside of a call keep
  it (`StepInside`), and `AcquireKeeps`, `ReleaseKeeps` and `StartKeeps` are the
  steps that move a token or choose a handle.
- `PositionsAndBytes`: `Spec => []TypeOK`, for every `MaxInt` and `MaxLen`. `TypeOK`
  is not inductive: between the load of a slice and its store a call relies on
  what it has found out. `FileInv` adds that (`Settled`): an `append` that has
  loaded fits, a `WriteAt` that extends has a sum `off + len(b)` that did not
  overflow (`WrapForm`: one that did is negative, and not more than the length),
  and one that copies has an offset that is not negative; and it adds that the
  counters are numbers. `DataForm` to `AppendForm` say what slicing, copying and
  extending return; `ThreadMoves` is the frame of every step inside of a call.
- `StatsAreTold`: `Spec => []StatsAddUp`. `CountInv` says it of one handle (`Fits`),
  with the thread that has recorded and not yet returned as the one difference,
  and adds what recording relies on (`Given`): the bytes of a `Read` are as many as
  its answer says, and a panic has none. The token makes that thread the only one.
- `CallsAreAtomic`: `Spec => RefinesAtomicFile`, under two hypotheses. One is
  `Synchronized`, as in the run (`lost_append` shows why). The other is `RoomyInts`,
  `2 * MaxLen <= MaxInt`: an offset in the file and a length do not overflow
  together. Where an int has 64 bits no slice has 2^62 bytes; without it a
  `WriteAt` at an offset in the file could wrap, and write short without an error.
  Other overflows stay possible and are covered: of a `Seek`, of `off + len(b)` behind
  the end of the file, of `offset + n` in `ReadDir`. `AtomicInv` says how far each
  call is (`Progress`): it has an answer just when it has taken effect, and a write
  between load and store still has the file it loaded, or has extended it by what
  it will copy (`Prepared`). `OneHandle` and the token make it the only call that
  is past the receive (`InsideAlone`, `Alone`). The operation's step, or the last
  of a write, is the abstract step; all others stutter.

`PathMatcherProofs` has two, from `MatcherAssumption` only:

- `ClonesAgree` and `ClonesOfClonesAgree`: for every matcher that the
  constructors or `CloneForSub` can make, every directory and every path, of any
  length, the clone matches exactly when the original matches the joined path.
  The proof is about sequences: `Join` is associative (`JoinAssociative`), and
  cutting a prefix off inverts it (`CutPrefixInverts`, `CutPrefixJoins`). That
  `CloneForSub` returns a matcher again (`CloneIsMatcher`) gives the clone of a
  clone.

`MockFSProofs` has seven, from `MockFSAssumption`, for any finite set of goroutines,
and any calls, rules, depth and bounds:

- `NoFailureLost`: `Spec => []ErrorsReported`, and `SubFailsLikeParent`:
  `Spec => []SubFailsAlike`, from one invariant `CallsInv`. It says of each
  goroutine what the answer it has so far owes to the injector (`KeepsErrors`:
  before the last part of a call the failures dealt are in the answer, and none
  has been dealt to a call that still goes on) and that the rules in an answer
  are the clones of those checked (`ClonesRules`). A step of one goroutine leaves
  the others alone (`OneMoves`); each action has a lemma. `SubFailsLikeParent`
  then follows from `ClonesAgree` and `ClonesOfClonesAgree` by way of
  `OutcomesOfClone`: equal matches give equal possible outcomes.
- `OptionsFillTheirDirectory`: `Spec => []BuiltWhereWritten`. That the tree is the
  written one is not inductive: `BuildInv` adds that the context is the path of
  the enclosing `Dir` options and that each of them will restore the path of
  those around it (`ContextIsPath`), so that an option goes to the place where it
  stands (`PutInPlace`).
- `CallsTyped`: `Spec => []TypeOK`. `TypeInv` adds which goroutine has the lock
  (`Mover`), with the paths that the tree's `Rename` is about, and that a call in
  the tree has a path that is not refused. What an operation does to the map is
  not proved again: `TreeProofs` is an instance of `FileTreeProofs`, whose lemmas
  say that each operation keeps the types.
- `AnsweredFromOneVersion`: `Spec => []AnswersFromOneVersion`. `SeenInv` says that
  the tree of the moment is among those a running call has seen, and what each
  call knows between two sections: that its directory was one in some version,
  that the entry a `Stat` holds was at its path in one (`EntrySeen`), also after
  the map has lost it. Steps that only look are apart from those that change the
  tree, in which the entries that others hold must stay or be kept for them
  (`KeepsEntries`, `SectionRight`).
- `StatsAreOutcomes`: `Spec => []CallsCounted`. The errors of a call name its
  operation just when it failed (`NamesItsCall`), so what `Record` sees is what the
  caller will be told. The `Open`s of running `ReadFile`s are counted as sets
  (`Readers`, `FailedReaders`) that each step changes by one member at most
  (`ReadersChange`), with the cardinality lemmas of the library.
- `MarkedPathsStayGone`: `Spec => MarkedStaysGone`. `MarksInv` says that a call that
  has passed its check did so among rules without a mark of its path
  (`MarkFails`: a mark lets nothing pass), so that one which puts the entry back
  has checked too early, under another path, or not at all.

`LatencyProofs` has two, from `LatencyAssumption`, for any goroutines,
simulators, operations and durations; `LatencySpec` is the specification without
fairness.

- `NobodySleepsTogether`: `LatencySpec => []OneSleeper`. `TicketInv` says that the
  ticket is in the channel or with one goroutine, without counting.
- `OnceSleepsOnce`: `LatencySpec => []OnceAccounting`. `BooksInv` adds to it that a
  simulator that `Clone` has not made yet has not been used, and `CallsInOrder`
  that calls are in simulators that exist and race only for an operation with a
  duration. `RaceKeeps`, `TicketKeeps`, `ClearKeeps` and `CloneKeeps` are the steps.

`StatsProofs` has three, from `StatsAssumption`, for any `MaxInt` and any number
of changes and readings; `StatsSpec` is `StatsInit` and `StatsNext`.

- `FailuresWithinTotals`, `ReadingsAreOfTheCall` and `PanicsAreTorn` are `StatsTypeOK`,
  `ResultsFromTheCall` and `PanicsOnlyWhenTorn` of all reachable states. They are
  about what a call returns; `StatsInv` adds what it knows on its way: each field
  it has read was among the values shown since it began (`HadFrom`, `GotFrom`), a
  copy that goes on has not met a panic, and each total in the history of a
  recorder came with failures that did not exceed it. From this last part comes
  that a panic needs two values of the failures (`PanicIsTorn`). `CopyRight` and
  `DeltaRight` are the calls that return a `Stats`.

Every invariant, every action property and both refinements that a passing run
checks are stated by one of these theorems. Only model-checked:

- liveness: `EveryCallReturns`, `EverySleepEnds`. The prover has no `ENABLED`.
- the statements that the `violation` runs refute; they are false.

Attempts to prove corrected the model in places where the instances that TLC
explores showed no difference. `AtomicFile` judged a `Seek` from the end by its
offset alone and by the position, not by the sum with the length. In `MockFS`, a
call that failed could still make a `Stat` lose its entry (`Lose`), and
`AnswersFromOneVersion` was wrong about two answers: a `Sub` of `.` does not look
whether the map has an entry at `.`, and a directory that is gone by the second
section is listed in the tree as it then is. `StatsAddUp` was a sum over all calls
ever made; with `tally` it is said of each handle and each operation, which is
more, and can be reasoned about step by step.

## Findings

Six runs end in a counterexample; `PROJECT.json` quotes the documents. The
`Rename` to itself, the removal of a root that is not empty and the overflow of
`ReadDir(n)` look like mistakes in the code. The three others are statements of
the documents that the code does not keep: what `ErrorModeAfterSuccesses`
counts, that each name below a directory has an entry, and concurrent appends
through two handles.

Some remarks have no run, as a property of a passing run already says exactly
what happens:

- `DECISIONS.md:17` says that the panics of `Set` and `SetBytes` are "not
  reachable through `mockfs`'s own constructors or options".
  `NewStatsRecorder(other)` reaches both, with a `Delta` that is negative, and
  `Set` with a recorder that changes meanwhile (`PanicsOnlyWhenTorn`).
- `stats.go:163` says of `NewStatsRecorder` that "the recorder is initialized with
  those values". An operation whose counts are not positive is left at zero
  without a panic (`ResultsFromTheCall`).
- A `Rename` of `.` moves the entry of the root and leaves all that is in it, for
  the reason of `root_removed`. No document says what it should do, and
  `AbstractTree` takes it for a move of a directory into itself (`MoveWithin`).
- `latency.go:191` says that `Reset` must be called when nobody else is in
  `Simulate`; `mockfile.go:633` and `642` do not see to that (`OnceAccounting`).
- `mockfs.go:832` names `AddFile` as what can put an entry at a marked path;
  there are others (`MarkedStaysGone`).
- `pathmatcher.go:205` says that `WildcardMatcher` is equivalent to the glob `*`,
  which does not match paths with a `/`. The matcher matches all, as the line
  above says; the model has it so.

## Not modelled

- Permissions, modification times and contents of files in the tree: no
  operation depends on them. So a `ReadFile` in chunks that mixes two versions of
  the contents is not seen.
- How globs and regular expressions match. `MarkNonExistent` adds its path as a
  glob; a path with the special characters of globs is not modelled, nor is an
  invalid path, whose error it hides.
- In `MockFile`: bytes of two appends mixed in one slice with spare capacity,
  and torn slice headers. Both are data races of callers that are not
  synchronized; `lost_append` already fails without them, and synchronized
  callers do not have them.
- The `With...` options set fields before the first call; the modules have them
  as constants. Parsing of the arguments of `File` and `Dir`, and conversion of
  contents to bytes, is one outcome: the option fails (`BadOption`).
- Sums and tests of one snapshot (`Operations`, `HasFailures`, `CountSuccess`),
  `String` and the assertions of `stats.go`: they change nothing.
- `fileinfo.go`: immutable values.

## Plan

The order was: what several goroutines change with atomics and locks
(`ErrorInjector`), the map and its promise (`FileTree`, `AbstractTree`), handles on
it (`MockFile`, `AtomicFile`), then the calls that put these together (`MockFS`
with `PathMatcher`) and the instruments that stand beside them (`Latency`,
`Stats`). Each is modelled and checked, and what its runs check is proved. What is
left:

- Contents of files in the tree, in pieces, so that a `ReadFile` in chunks can be
  modelled. It is the one hazard in the list without a property.
- A proof that the atomic calls of `AtomicFile` are those of a directory listing:
  that the batches of `ReadDir(n)` partition the entries, for callers that only
  list. It follows from the offsets by an argument about a whole behaviour, which
  needs a history of what was returned.
- A promise for `MockFS` as a whole, an atomic file system with the exceptions
  that `AnswersFromOneVersion` and `MarkedStaysGone` name, which it then refines.
